---- MODULE Spec2Model ----
(***************************************************************************)
(* Model of the FHEROckPaperScissors contract: the game registry, the      *)
(* per-game state machine, the player ledger, the reveal coordinator and   *)
(* the winner resolver.  Every external call is one atomic transaction:    *)
(* it either commits all its writes or reverts with an error and commits   *)
(* none.                                                                   *)
(***************************************************************************)
EXTENDS Integers, Sequences, FiniteSets, TLC

\* ---------------------------------------------------------------- bounds
MaxSeats == 4          \* sum of maxPlayers over the created games
NumAddr == 3           \* number of distinct calling identities

\* ------------------------------------------------------ program constants
Open == 0
Ready == 1
Started == 2
Revealing == 3
Revealed == 4

MinPlayers == 2
MaxPlayers == 4
SlotBytes == 32
Byte == 256

Rock == 1
Paper == 2
Scissors == 3

ZeroAddress == 0
decryptionOracle == 1

\* ------------------------------------------------------------ input sets
Address == 1..NumAddr
MaxGames == MaxSeats \div MinPlayers    \* no more games than this fit the seats
GameIds == 0..MaxGames                 \* the id MaxGames is never created
RequestIds == 0..MaxGames              \* the id MaxGames is never issued
MaxPlayersInputs == (MinPlayers - 1)..(MaxPlayers + 1)
Words == {0, 1, 2, 3, 4, 257}          \* 32-byte slot contents of a callback
TrailingBytes == {0, 31}               \* bytes after the last whole slot

\* A callback payload: whole 32-byte slots followed by some trailing bytes.
Payload(words, trailing) == [words |-> words, trailing |-> trailing]

\* Every payload of n whole slots.
WellShaped(n) == { Payload(w, 0) : w \in [1..n -> Words] }

\* Payloads whose length is not n slots: a slot short, a slot long, empty,
\* and n slots followed by a partial one.
MisShaped(n) ==
    { Payload([i \in 1..k |-> Paper], 0) : k \in {0, n - 1, n + 1} \ {n, -1} }
        \cup { Payload([i \in 1..n |-> Paper], t) : t \in TrailingBytes \ {0} }

\* ----------------------------------------------------------------- state
VARIABLES
    nextGameId,       \* _nextGameId
    games,            \* _games
    playerStates,     \* _playerStates
    requestToGame,    \* _requestToGame
    counterRequest,   \* request counter of the decryption service
    events,           \* per game: the events emitted for it, in order
    call              \* the external call a submitMove in progress is waiting in

vars == <<nextGameId, games, playerStates, requestToGame, counterRequest, events, call>>

\* no transaction is in progress
Idle == [at |-> "idle"]

EmptyGame ==
    [host |-> ZeroAddress, maxPlayers |-> 0, state |-> Open, movesSubmitted |-> 0,
     revealRequestId |-> 0, players |-> <<>>, winners |-> <<>>, revealedMoves |-> <<>>]

EmptyPlayerState ==
    [joined |-> FALSE, moveSubmitted |-> FALSE, moveRevealed |-> FALSE,
     encryptedMove |-> 0, revealedMove |-> 0]

\* log: the names of the events emitted for the game, in order (what each
\* event carries is given by the operators named after the operations' events);
\* revealRequested: the decryption requests made for it (request id and
\* handles); gameRevealed: what its GameRevealed events carried.
EmptyEvents == [log |-> <<>>, revealRequested |-> <<>>, gameRevealed |-> <<>>]

Init ==
    /\ nextGameId = 0
    /\ games = [g \in GameIds |-> EmptyGame]
    /\ playerStates = [g \in GameIds |-> [a \in Address |-> EmptyPlayerState]]
    /\ requestToGame = [r \in RequestIds |-> 0]
    /\ counterRequest = 0
    /\ events = [g \in GameIds |-> EmptyEvents]
    /\ call = Idle

\* ---------------------------------------------------------------- errors
NoError == [kind |-> "none"]
InvalidPlayerLimit == [kind |-> "InvalidPlayerLimit"]
GameNotFound(gameId) == [kind |-> "GameNotFound", gameId |-> gameId]
GameStateMismatch(gameId, expected, actual) ==
    [kind |-> "GameStateMismatch", gameId |-> gameId, expected |-> expected, actual |-> actual]
PlayerAlreadyJoined(gameId, player) ==
    [kind |-> "PlayerAlreadyJoined", gameId |-> gameId, player |-> player]
GameIsFull(gameId) == [kind |-> "GameIsFull", gameId |-> gameId]
PlayerNotInGame(gameId, player) ==
    [kind |-> "PlayerNotInGame", gameId |-> gameId, player |-> player]
MoveAlreadySubmitted(gameId, player) ==
    [kind |-> "MoveAlreadySubmitted", gameId |-> gameId, player |-> player]
InvalidMoveValue(move) == [kind |-> "InvalidMoveValue", move |-> move]
InvalidRevealRequest(requestId) == [kind |-> "InvalidRevealRequest", requestId |-> requestId]
UnexpectedResultLength(expected, actual) ==
    [kind |-> "UnexpectedResultLength", expected |-> expected, actual |-> actual]
Unauthorized(sender) == [kind |-> "Unauthorized", sender |-> sender]
\* reverts raised inside the FHE library
InvalidInputProof == [kind |-> "InvalidInputProof"]
InvalidKMSSignatures == [kind |-> "InvalidKMSSignatures"]

\* ---------------------------------------------------------------- events
GameCreated(gameId, host, maxPlayers) ==
    [name |-> "GameCreated", gameId |-> gameId, host |-> host, maxPlayers |-> maxPlayers]
PlayerJoined(gameId, player) == [name |-> "PlayerJoined", gameId |-> gameId, player |-> player]
GameReady(gameId) == [name |-> "GameReady", gameId |-> gameId]
GameStarted(gameId, starter) == [name |-> "GameStarted", gameId |-> gameId, starter |-> starter]
MoveSubmitted(gameId, player) == [name |-> "MoveSubmitted", gameId |-> gameId, player |-> player]
RevealRequested(gameId, requestId) ==
    [name |-> "RevealRequested", gameId |-> gameId, requestId |-> requestId]
GameRevealed(gameId, winners, winningMove) ==
    [name |-> "GameRevealed", gameId |-> gameId, winners |-> winners,
     winningMove |-> winningMove]

\* emit: the events with the given ones appended to the log of the game
emit(emitted, gameId, entries) ==
    [emitted EXCEPT ![gameId].log = @ \o [i \in 1..Len(entries) |-> entries[i].name]]

\* A revert undoes every write of the transaction.
Revert == UNCHANGED vars

\* --------------------------------------------------------------- helpers
RECURSIVE SumMaxPlayers(_)
SumMaxPlayers(n) == IF n = 0 THEN 0 ELSE games[n - 1].maxPlayers + SumMaxPlayers(n - 1)

SeatsUsed == SumMaxPlayers(nextGameId)

getExistingGameError_noCheck(gameId) == NoError

getExistingGameError(gameId) ==
    IF games[gameId].host = ZeroAddress THEN GameNotFound(gameId) ELSE NoError

\* ------------------------------------------------------------ createGame
createGameError_min1(maxPlayers) ==
    IF maxPlayers < 1 \/ maxPlayers > MaxPlayers THEN InvalidPlayerLimit ELSE NoError

createGameError(maxPlayers) ==
    IF maxPlayers < MinPlayers \/ maxPlayers > MaxPlayers THEN InvalidPlayerLimit ELSE NoError

\* the events of an accepted createGame
createGameEvents(sender, maxPlayers) ==
    <<GameCreated(nextGameId, sender, maxPlayers), PlayerJoined(nextGameId, sender)>>

createGame_sameId(sender, maxPlayers) ==
    LET err == createGameError(maxPlayers)
        gameId == nextGameId
    IN  IF err # NoError
        THEN Revert
        ELSE /\ SeatsUsed + maxPlayers <= MaxSeats
             /\ games' = [games EXCEPT ![gameId] =
                    [@ EXCEPT !.host = sender, !.maxPlayers = maxPlayers, !.state = Open,
                              !.players = Append(@, sender)]]
             /\ playerStates' = [playerStates EXCEPT ![gameId][sender].joined = TRUE]
             /\ events' = emit(events, gameId, createGameEvents(sender, maxPlayers))
             /\ UNCHANGED <<nextGameId, requestToGame, counterRequest>>

createGame_notJoined(sender, maxPlayers) ==
    LET err == createGameError(maxPlayers)
        gameId == nextGameId
    IN  IF err # NoError
        THEN Revert
        ELSE /\ SeatsUsed + maxPlayers <= MaxSeats
             /\ nextGameId' = nextGameId + 1
             /\ games' = [games EXCEPT ![gameId] =
                    [@ EXCEPT !.host = sender, !.maxPlayers = maxPlayers, !.state = Open,
                              !.players = Append(@, sender)]]
             /\ events' = emit(events, gameId, createGameEvents(sender, maxPlayers))
             /\ UNCHANGED <<playerStates, requestToGame, counterRequest>>

createGame(sender, maxPlayers) ==
    LET err == createGameError(maxPlayers)
        gameId == nextGameId
    IN  IF err # NoError
        THEN Revert
        ELSE /\ SeatsUsed + maxPlayers <= MaxSeats
             /\ nextGameId' = nextGameId + 1
             /\ games' = [games EXCEPT ![gameId] =
                    [@ EXCEPT !.host = sender, !.maxPlayers = maxPlayers, !.state = Open,
                              !.players = Append(@, sender)]]
             /\ playerStates' = [playerStates EXCEPT ![gameId][sender].joined = TRUE]
             /\ events' = emit(events, gameId, createGameEvents(sender, maxPlayers))
             /\ UNCHANGED <<requestToGame, counterRequest>>

\* -------------------------------------------------------------- joinGame
joinGameError_rejoin(sender, gameId) ==
    IF getExistingGameError(gameId) # NoError THEN getExistingGameError(gameId)
    ELSE IF games[gameId].state # Open
         THEN GameStateMismatch(gameId, Open, games[gameId].state)
    ELSE IF Len(games[gameId].players) >= games[gameId].maxPlayers THEN GameIsFull(gameId)
    ELSE NoError

joinGameError_joinedFirst(sender, gameId) ==
    IF getExistingGameError(gameId) # NoError THEN getExistingGameError(gameId)
    ELSE IF playerStates[gameId][sender].joined THEN PlayerAlreadyJoined(gameId, sender)
    ELSE IF games[gameId].state # Open
         THEN GameStateMismatch(gameId, Open, games[gameId].state)
    ELSE IF Len(games[gameId].players) >= games[gameId].maxPlayers THEN GameIsFull(gameId)
    ELSE NoError

joinGameError(sender, gameId) ==
    IF getExistingGameError(gameId) # NoError THEN getExistingGameError(gameId)
    ELSE IF games[gameId].state # Open
         THEN GameStateMismatch(gameId, Open, games[gameId].state)
    ELSE IF playerStates[gameId][sender].joined THEN PlayerAlreadyJoined(gameId, sender)
    ELSE IF Len(games[gameId].players) >= games[gameId].maxPlayers THEN GameIsFull(gameId)
    ELSE NoError

joinGameEvents_noReady(sender, gameId) == <<PlayerJoined(gameId, sender)>>

\* the events of an accepted joinGame
joinGameEvents(sender, gameId) ==
    IF Len(games[gameId].players) + 1 = games[gameId].maxPlayers
    THEN <<PlayerJoined(gameId, sender), GameReady(gameId)>>
    ELSE <<PlayerJoined(gameId, sender)>>

joinGame_sharedLedger(sender, gameId) ==
    LET err == joinGameError(sender, gameId)
        players == Append(games[gameId].players, sender)
    IN  IF err # NoError
        THEN Revert
        ELSE /\ playerStates' = [g \in GameIds |->
                                    [playerStates[g] EXCEPT ![sender].joined = TRUE]]
             /\ games' = [games EXCEPT ![gameId] =
                    [@ EXCEPT !.players = players,
                              !.state = IF Len(players) = games[gameId].maxPlayers
                                        THEN Ready ELSE @]]
             /\ events' = emit(events, gameId, joinGameEvents(sender, gameId))
             /\ UNCHANGED <<nextGameId, requestToGame, counterRequest>>

joinGame_autoStart(sender, gameId) ==
    LET err == joinGameError(sender, gameId)
        players == Append(games[gameId].players, sender)
    IN  IF err # NoError
        THEN Revert
        ELSE /\ playerStates' = [playerStates EXCEPT ![gameId][sender].joined = TRUE]
             /\ games' = [games EXCEPT ![gameId] =
                    [@ EXCEPT !.players = players,
                              !.state = IF Len(players) = games[gameId].maxPlayers
                                        THEN Started ELSE @]]
             /\ events' = emit(events, gameId, joinGameEvents(sender, gameId))
             /\ UNCHANGED <<nextGameId, requestToGame, counterRequest>>

joinGame_staysOpen(sender, gameId) ==
    LET err == joinGameError(sender, gameId)
        players == Append(games[gameId].players, sender)
    IN  IF err # NoError
        THEN Revert
        ELSE /\ playerStates' = [playerStates EXCEPT ![gameId][sender].joined = TRUE]
             /\ games' = [games EXCEPT ![gameId] = [@ EXCEPT !.players = players]]
             /\ events' = emit(events, gameId, joinGameEvents(sender, gameId))
             /\ UNCHANGED <<nextGameId, requestToGame, counterRequest>>

joinGame_prepend(sender, gameId) ==
    LET err == joinGameError(sender, gameId)
        players == <<sender>> \o games[gameId].players
    IN  IF err # NoError
        THEN Revert
        ELSE /\ playerStates' = [playerStates EXCEPT ![gameId][sender].joined = TRUE]
             /\ games' = [games EXCEPT ![gameId] =
                    [@ EXCEPT !.players = players,
                              !.state = IF Len(players) = games[gameId].maxPlayers
                                        THEN Ready ELSE @]]
             /\ events' = emit(events, gameId, joinGameEvents(sender, gameId))
             /\ UNCHANGED <<nextGameId, requestToGame, counterRequest>>

joinGame(sender, gameId) ==
    LET err == joinGameError(sender, gameId)
        players == Append(games[gameId].players, sender)
    IN  IF err # NoError
        THEN Revert
        ELSE /\ playerStates' = [playerStates EXCEPT ![gameId][sender].joined = TRUE]
             /\ games' = [games EXCEPT ![gameId] =
                    [@ EXCEPT !.players = players,
                              !.state = IF Len(players) = games[gameId].maxPlayers
                                        THEN Ready ELSE @]]
             /\ events' = emit(events, gameId, joinGameEvents(sender, gameId))
             /\ UNCHANGED <<nextGameId, requestToGame, counterRequest>>

\* ------------------------------------------------------------- startGame
startGameError_anyCaller(sender, gameId) ==
    IF getExistingGameError(gameId) # NoError THEN getExistingGameError(gameId)
    ELSE IF games[gameId].state # Ready
         THEN GameStateMismatch(gameId, Ready, games[gameId].state)
    ELSE NoError

startGameError_hostOnly(sender, gameId) ==
    IF getExistingGameError(gameId) # NoError THEN getExistingGameError(gameId)
    ELSE IF sender # games[gameId].host THEN Unauthorized(sender)
    ELSE NoError

startGameError(sender, gameId) ==
    IF getExistingGameError(gameId) # NoError THEN getExistingGameError(gameId)
    ELSE IF sender # games[gameId].host THEN Unauthorized(sender)
    ELSE IF games[gameId].state # Ready
         THEN GameStateMismatch(gameId, Ready, games[gameId].state)
    ELSE NoError

startGame(sender, gameId) ==
    LET err == startGameError(sender, gameId)
    IN  IF err # NoError
        THEN Revert
        ELSE /\ games' = [games EXCEPT ![gameId].state = Started]
             /\ events' = emit(events, gameId, <<GameStarted(gameId, sender)>>)
             /\ UNCHANGED <<nextGameId, playerStates, requestToGame, counterRequest>>

\* ------------------------------------------------------------ submitMove
\* The ciphertext handle FHE.fromExternal yields for a caller's input; the
\* input proof binds it to the caller, so each caller has a handle of their own.
fromExternal(sender) == sender

submitMoveError_anyCaller(sender, gameId, inputProofOk) ==
    IF getExistingGameError(gameId) # NoError THEN getExistingGameError(gameId)
    ELSE IF games[gameId].state # Started
         THEN GameStateMismatch(gameId, Started, games[gameId].state)
    ELSE IF playerStates[gameId][sender].moveSubmitted
         THEN MoveAlreadySubmitted(gameId, sender)
    ELSE IF ~inputProofOk THEN InvalidInputProof
    ELSE NoError

submitMoveError_memberFirst(sender, gameId, inputProofOk) ==
    IF getExistingGameError(gameId) # NoError THEN getExistingGameError(gameId)
    ELSE IF ~playerStates[gameId][sender].joined THEN PlayerNotInGame(gameId, sender)
    ELSE IF games[gameId].state # Started
         THEN GameStateMismatch(gameId, Started, games[gameId].state)
    ELSE IF playerStates[gameId][sender].moveSubmitted
         THEN MoveAlreadySubmitted(gameId, sender)
    ELSE IF ~inputProofOk THEN InvalidInputProof
    ELSE NoError

submitMoveError_proofFirst(sender, gameId, inputProofOk) ==
    IF getExistingGameError(gameId) # NoError THEN getExistingGameError(gameId)
    ELSE IF games[gameId].state # Started
         THEN GameStateMismatch(gameId, Started, games[gameId].state)
    ELSE IF ~playerStates[gameId][sender].joined THEN PlayerNotInGame(gameId, sender)
    ELSE IF ~inputProofOk THEN InvalidInputProof
    ELSE IF playerStates[gameId][sender].moveSubmitted
         THEN MoveAlreadySubmitted(gameId, sender)
    ELSE NoError

submitMoveError(sender, gameId, inputProofOk) ==
    IF getExistingGameError(gameId) # NoError THEN getExistingGameError(gameId)
    ELSE IF games[gameId].state # Started
         THEN GameStateMismatch(gameId, Started, games[gameId].state)
    ELSE IF ~playerStates[gameId][sender].joined THEN PlayerNotInGame(gameId, sender)
    ELSE IF playerStates[gameId][sender].moveSubmitted
         THEN MoveAlreadySubmitted(gameId, sender)
    ELSE IF ~inputProofOk THEN InvalidInputProof
    ELSE NoError

\* the test that triggers the reveal request
allMovesSubmitted_early(game) == game.movesSubmitted >= game.maxPlayers - 1

allMovesSubmitted(game) == game.movesSubmitted = game.maxPlayers

\* _finalizeSubmissions, applied to the game record, the ledger and the events
\* submitMove has written so far in the same transaction.
finalizeSubmissions_rawIndex(gameId, game, ledger, emitted) ==
    LET playerCount == Len(game.players)
        handles == [i \in 1..playerCount |-> ledger[gameId][game.players[i]].encryptedMove]
        requestId == counterRequest
    IN  /\ games' = [games EXCEPT ![gameId] =
                        [game EXCEPT !.state = Revealing, !.revealRequestId = requestId]]
        /\ counterRequest' = counterRequest + 1
        /\ requestToGame' = [requestToGame EXCEPT ![requestId] = gameId]
        /\ events' = emit([emitted EXCEPT ![gameId].revealRequested =
                                 Append(@, [requestId |-> requestId, handles |-> handles])],
                          gameId, <<RevealRequested(gameId, requestId)>>)

finalizeSubmissions_lastFirst(gameId, game, ledger, emitted) ==
    LET playerCount == Len(game.players)
        last == CHOOSE i \in 1..playerCount :
                    ~playerStates[gameId][game.players[i]].moveSubmitted
        slot(i) == IF i = 1 THEN last ELSE IF i = last THEN 1 ELSE i
        handles == [i \in 1..playerCount |->
                       ledger[gameId][game.players[slot(i)]].encryptedMove]
        requestId == counterRequest
    IN  /\ games' = [games EXCEPT ![gameId] =
                        [game EXCEPT !.state = Revealing, !.revealRequestId = requestId]]
        /\ counterRequest' = counterRequest + 1
        /\ requestToGame' = [requestToGame EXCEPT ![requestId] = gameId + 1]
        /\ events' = emit([emitted EXCEPT ![gameId].revealRequested =
                                 Append(@, [requestId |-> requestId, handles |-> handles])],
                          gameId, <<RevealRequested(gameId, requestId)>>)

finalizeSubmissions_staleLedger(gameId, game, ledger, emitted) ==
    LET playerCount == Len(game.players)
        handles == [i \in 1..playerCount |->
                       playerStates[gameId][game.players[i]].encryptedMove]
        requestId == counterRequest
    IN  /\ games' = [games EXCEPT ![gameId] =
                        [game EXCEPT !.state = Revealing, !.revealRequestId = requestId]]
        /\ counterRequest' = counterRequest + 1
        /\ requestToGame' = [requestToGame EXCEPT ![requestId] = gameId + 1]
        /\ events' = emit([emitted EXCEPT ![gameId].revealRequested =
                                 Append(@, [requestId |-> requestId, handles |-> handles])],
                          gameId, <<RevealRequested(gameId, requestId)>>)

finalizeSubmissions(gameId, game, ledger, emitted) ==
    LET playerCount == Len(game.players)
        handles == [i \in 1..playerCount |-> ledger[gameId][game.players[i]].encryptedMove]
        requestId == counterRequest
    IN  /\ games' = [games EXCEPT ![gameId] =
                        [game EXCEPT !.state = Revealing, !.revealRequestId = requestId]]
        /\ counterRequest' = counterRequest + 1
        /\ requestToGame' = [requestToGame EXCEPT ![requestId] = gameId + 1]
        /\ events' = emit([emitted EXCEPT ![gameId].revealRequested =
                                 Append(@, [requestId |-> requestId, handles |-> handles])],
                          gameId, <<RevealRequested(gameId, requestId)>>)

submitMove(sender, gameId, inputProofOk) ==
    LET err == submitMoveError(sender, gameId, inputProofOk)
        encryptedChoice == fromExternal(sender)
        ledger == [playerStates EXCEPT ![gameId][sender] =
                      [@ EXCEPT !.encryptedMove = encryptedChoice, !.moveSubmitted = TRUE]]
        game == [games[gameId] EXCEPT !.movesSubmitted = @ + 1]
        emitted == emit(events, gameId, <<MoveSubmitted(gameId, sender)>>)
    IN  IF err # NoError
        THEN Revert
        ELSE /\ playerStates' = ledger
             /\ IF allMovesSubmitted(game)
                THEN finalizeSubmissions(gameId, game, ledger, emitted)
                ELSE /\ games' = [games EXCEPT ![gameId] = game]
                     /\ events' = emitted
                     /\ UNCHANGED <<requestToGame, counterRequest>>
             /\ UNCHANGED nextGameId

\* ------------------------------------------------ handleDecryptionResult
determineWinningMove_swapped(hasRock, hasPaper, hasScissors) ==
    LET distinctMoves == (IF hasRock THEN 1 ELSE 0) + (IF hasPaper THEN 1 ELSE 0)
                         + (IF hasScissors THEN 1 ELSE 0)
    IN  IF distinctMoves # 2 THEN 0
        ELSE IF hasRock /\ hasPaper THEN Paper
        ELSE IF hasPaper /\ hasScissors THEN Scissors
        ELSE IF hasRock /\ hasScissors THEN Scissors
        ELSE 0

determineWinningMove(hasRock, hasPaper, hasScissors) ==
    LET distinctMoves == (IF hasRock THEN 1 ELSE 0) + (IF hasPaper THEN 1 ELSE 0)
                         + (IF hasScissors THEN 1 ELSE 0)
    IN  IF distinctMoves # 2 THEN 0
        ELSE IF hasRock /\ hasPaper THEN Paper
        ELSE IF hasPaper /\ hasScissors THEN Scissors
        ELSE IF hasRock /\ hasScissors THEN Rock
        ELSE 0

moveValue_wholeWord(cleartexts, i) == cleartexts.words[i]

\* uint8(uint256(word)) of the i-th 32-byte slot
moveValue(cleartexts, i) == cleartexts.words[i] % Byte

cleartextsLength_slotsOnly(cleartexts) == Len(cleartexts.words) * SlotBytes

cleartextsLength(cleartexts) == Len(cleartexts.words) * SlotBytes + cleartexts.trailing

\* The decode loop from slot i on: acc holds the writes made so far.  A slot
\* out of range stops the loop with the error that reverts the callback.
RECURSIVE decodeMoves_skipInvalid(_, _, _, _)
decodeMoves_skipInvalid(players, cleartexts, i, acc) ==
    IF i > Len(players) THEN acc
    ELSE LET move == moveValue(cleartexts, i)
         IN  IF move < 1 \/ move > 3
             THEN decodeMoves_skipInvalid(players, cleartexts, i + 1, acc)
             ELSE decodeMoves_skipInvalid(players, cleartexts, i + 1,
                    [err |-> acc.err,
                     ledger |-> [acc.ledger EXCEPT ![players[i]] =
                                    [@ EXCEPT !.moveRevealed = TRUE, !.revealedMove = move]],
                     revealedMoves |-> Append(acc.revealedMoves, move),
                     hasRock |-> acc.hasRock \/ move = Rock,
                     hasPaper |-> acc.hasPaper \/ move = Paper,
                     hasScissors |-> acc.hasScissors \/ move = Scissors])

RECURSIVE decodeMoves_clearsHandle(_, _, _, _)
decodeMoves_clearsHandle(players, cleartexts, i, acc) ==
    IF i > Len(players) THEN acc
    ELSE LET move == moveValue(cleartexts, i)
         IN  IF move < 1 \/ move > 3
             THEN [acc EXCEPT !.err = InvalidMoveValue(move)]
             ELSE decodeMoves_clearsHandle(players, cleartexts, i + 1,
                    [err |-> acc.err,
                     ledger |-> [acc.ledger EXCEPT ![players[i]] =
                                    [@ EXCEPT !.moveRevealed = TRUE, !.revealedMove = move,
                                              !.encryptedMove = 0]],
                     revealedMoves |-> Append(acc.revealedMoves, move),
                     hasRock |-> acc.hasRock \/ move = Rock,
                     hasPaper |-> acc.hasPaper \/ move = Paper,
                     hasScissors |-> acc.hasScissors \/ move = Scissors])

RECURSIVE decodeMoves(_, _, _, _)
decodeMoves(players, cleartexts, i, acc) ==
    IF i > Len(players) THEN acc
    ELSE LET move == moveValue(cleartexts, i)
         IN  IF move < 1 \/ move > 3
             THEN [acc EXCEPT !.err = InvalidMoveValue(move)]
             ELSE decodeMoves(players, cleartexts, i + 1,
                    [err |-> acc.err,
                     ledger |-> [acc.ledger EXCEPT ![players[i]] =
                                    [@ EXCEPT !.moveRevealed = TRUE, !.revealedMove = move]],
                     revealedMoves |-> Append(acc.revealedMoves, move),
                     hasRock |-> acc.hasRock \/ move = Rock,
                     hasPaper |-> acc.hasPaper \/ move = Paper,
                     hasScissors |-> acc.hasScissors \/ move = Scissors])

\* The second loop from index i on: the players whose revealed move is the
\* winning move, in join order.
RECURSIVE collectWinners_losers(_, _, _, _)
collectWinners_losers(players, revealedMoves, winningMove, i) ==
    IF i > Len(players) THEN <<>>
    ELSE IF revealedMoves[i] # winningMove
         THEN <<players[i]>> \o collectWinners_losers(players, revealedMoves, winningMove, i + 1)
         ELSE collectWinners_losers(players, revealedMoves, winningMove, i + 1)

RECURSIVE collectWinners_skipHost(_, _, _, _)
collectWinners_skipHost(players, revealedMoves, winningMove, i) ==
    IF i > Len(players) THEN <<>>
    ELSE IF revealedMoves[i] = winningMove /\ i > 1
         THEN <<players[i]>> \o collectWinners_skipHost(players, revealedMoves, winningMove, i + 1)
         ELSE collectWinners_skipHost(players, revealedMoves, winningMove, i + 1)

RECURSIVE collectWinners_untilLoser(_, _, _, _)
collectWinners_untilLoser(players, revealedMoves, winningMove, i) ==
    IF i > Len(players) THEN <<>>
    ELSE IF revealedMoves[i] = winningMove
         THEN <<players[i]>> \o collectWinners_untilLoser(players, revealedMoves, winningMove, i + 1)
         ELSE <<>>

RECURSIVE collectWinners(_, _, _, _)
collectWinners(players, revealedMoves, winningMove, i) ==
    IF i > Len(players) THEN <<>>
    ELSE IF revealedMoves[i] = winningMove
         THEN <<players[i]>> \o collectWinners(players, revealedMoves, winningMove, i + 1)
         ELSE collectWinners(players, revealedMoves, winningMove, i + 1)

\* What the callback computes from a payload of the right length: the decoded
\* moves, the ledger writes, the winning move and the winners (or the error).
revealOutcome(players, ledger, cleartexts) ==
    LET decoded == decodeMoves(players, cleartexts, 1,
                       [err |-> NoError, ledger |-> ledger, revealedMoves |-> <<>>,
                        hasRock |-> FALSE, hasPaper |-> FALSE, hasScissors |-> FALSE])
        winningMove == determineWinningMove(decoded.hasRock, decoded.hasPaper,
                                            decoded.hasScissors)
    IN  [err |-> decoded.err,
         ledger |-> decoded.ledger,
         revealedMoves |-> decoded.revealedMoves,
         winningMove |-> winningMove,
         winners |-> IF decoded.err = NoError /\ winningMove # 0
                     THEN collectWinners(players, decoded.revealedMoves, winningMove, 1)
                     ELSE <<>>]

handleDecryptionResultError_noProof(sender, requestId, cleartexts, proofOk) ==
    LET encodedGame == requestToGame[requestId]
        gameId == encodedGame - 1
    IN  IF sender # decryptionOracle THEN Unauthorized(sender)
        ELSE IF encodedGame = 0 THEN InvalidRevealRequest(requestId)
        ELSE IF getExistingGameError(gameId) # NoError THEN getExistingGameError(gameId)
        ELSE IF games[gameId].revealRequestId # requestId THEN InvalidRevealRequest(requestId)
        ELSE IF games[gameId].state # Revealing
             THEN GameStateMismatch(gameId, Revealing, games[gameId].state)
        ELSE IF cleartextsLength(cleartexts) # Len(games[gameId].players) * SlotBytes
             THEN UnexpectedResultLength(Len(games[gameId].players) * SlotBytes,
                                         cleartextsLength(cleartexts))
        ELSE revealOutcome(games[gameId].players, playerStates[gameId], cleartexts).err

handleDecryptionResultError_anySender(sender, requestId, cleartexts, proofOk) ==
    LET encodedGame == requestToGame[requestId]
        gameId == encodedGame - 1
    IN  IF encodedGame = 0 THEN InvalidRevealRequest(requestId)
        ELSE IF getExistingGameError(gameId) # NoError THEN getExistingGameError(gameId)
        ELSE IF games[gameId].revealRequestId # requestId THEN InvalidRevealRequest(requestId)
        ELSE IF games[gameId].state # Revealing
             THEN GameStateMismatch(gameId, Revealing, games[gameId].state)
        ELSE IF ~proofOk THEN InvalidKMSSignatures
        ELSE IF cleartextsLength(cleartexts) # Len(games[gameId].players) * SlotBytes
             THEN UnexpectedResultLength(Len(games[gameId].players) * SlotBytes,
                                         cleartextsLength(cleartexts))
        ELSE revealOutcome(games[gameId].players, playerStates[gameId], cleartexts).err

handleDecryptionResultError(sender, requestId, cleartexts, proofOk) ==
    LET encodedGame == requestToGame[requestId]
        gameId == encodedGame - 1
    IN  IF sender # decryptionOracle THEN Unauthorized(sender)
        ELSE IF encodedGame = 0 THEN InvalidRevealRequest(requestId)
        ELSE IF getExistingGameError(gameId) # NoError THEN getExistingGameError(gameId)
        ELSE IF games[gameId].revealRequestId # requestId THEN InvalidRevealRequest(requestId)
        ELSE IF games[gameId].state # Revealing
             THEN GameStateMismatch(gameId, Revealing, games[gameId].state)
        ELSE IF ~proofOk THEN InvalidKMSSignatures
        ELSE IF cleartextsLength(cleartexts) # Len(games[gameId].players) * SlotBytes
             THEN UnexpectedResultLength(Len(games[gameId].players) * SlotBytes,
                                         cleartextsLength(cleartexts))
        ELSE revealOutcome(games[gameId].players, playerStates[gameId], cleartexts).err

\* delete _requestToGame[requestId]
consumeRequest_kept(requestId) == requestToGame

consumeRequest(requestId) == [requestToGame EXCEPT ![requestId] = 0]

handleDecryptionResult_consumes(sender, requestId, cleartexts, proofOk) ==
    LET err == handleDecryptionResultError(sender, requestId, cleartexts, proofOk)
        gameId == requestToGame[requestId] - 1
        outcome == revealOutcome(games[gameId].players, playerStates[gameId], cleartexts)
    IN  IF err # NoError
        THEN /\ requestToGame' = consumeRequest(requestId)
             /\ UNCHANGED <<nextGameId, games, playerStates, counterRequest, events>>
        ELSE /\ playerStates' = [playerStates EXCEPT ![gameId] = outcome.ledger]
             /\ games' = [games EXCEPT ![gameId] =
                    [@ EXCEPT !.revealedMoves = outcome.revealedMoves,
                              !.winners = outcome.winners,
                              !.state = Revealed]]
             /\ requestToGame' = consumeRequest(requestId)
             /\ events' = emit([events EXCEPT ![gameId].gameRevealed =
                                    Append(@, [winners |-> outcome.winners,
                                               winningMove |-> outcome.winningMove])],
                               gameId, <<GameRevealed(gameId, outcome.winners,
                                                      outcome.winningMove)>>)
             /\ UNCHANGED <<nextGameId, counterRequest>>

handleDecryptionResult_partial(sender, requestId, cleartexts, proofOk) ==
    LET err == handleDecryptionResultError(sender, requestId, cleartexts, proofOk)
        gameId == requestToGame[requestId] - 1
        outcome == revealOutcome(games[gameId].players, playerStates[gameId], cleartexts)
    IN  IF err.kind = "InvalidMoveValue"
        THEN /\ playerStates' = [playerStates EXCEPT ![gameId] = outcome.ledger]
             /\ games' = [games EXCEPT ![gameId].revealedMoves = outcome.revealedMoves]
             /\ UNCHANGED <<nextGameId, requestToGame, counterRequest, events>>
        ELSE IF err # NoError
        THEN Revert
        ELSE /\ playerStates' = [playerStates EXCEPT ![gameId] = outcome.ledger]
             /\ games' = [games EXCEPT ![gameId] =
                    [@ EXCEPT !.revealedMoves = outcome.revealedMoves,
                              !.winners = outcome.winners,
                              !.state = Revealed]]
             /\ requestToGame' = consumeRequest(requestId)
             /\ events' = emit([events EXCEPT ![gameId].gameRevealed =
                                    Append(@, [winners |-> outcome.winners,
                                               winningMove |-> outcome.winningMove])],
                               gameId, <<GameRevealed(gameId, outcome.winners,
                                                      outcome.winningMove)>>)
             /\ UNCHANGED <<nextGameId, counterRequest>>

handleDecryptionResult(sender, requestId, cleartexts, proofOk) ==
    LET err == handleDecryptionResultError(sender, requestId, cleartexts, proofOk)
        gameId == requestToGame[requestId] - 1
        outcome == revealOutcome(games[gameId].players, playerStates[gameId], cleartexts)
    IN  IF err # NoError
        THEN Revert
        ELSE /\ playerStates' = [playerStates EXCEPT ![gameId] = outcome.ledger]
             /\ games' = [games EXCEPT ![gameId] =
                    [@ EXCEPT !.revealedMoves = outcome.revealedMoves,
                              !.winners = outcome.winners,
                              !.state = Revealed]]
             /\ requestToGame' = consumeRequest(requestId)
             /\ events' = emit([events EXCEPT ![gameId].gameRevealed =
                                    Append(@, [winners |-> outcome.winners,
                                               winningMove |-> outcome.winningMove])],
                               gameId, <<GameRevealed(gameId, outcome.winners,
                                                      outcome.winningMove)>>)
             /\ UNCHANGED <<nextGameId, counterRequest>>

\* ----------------------------------------------------------------- views
getGame_noCheck(gameId) ==
    LET game == games[gameId]
    IN  [err |-> NoError,
         host |-> game.host,
         maxPlayers |-> game.maxPlayers,
         currentPlayers |-> Len(game.players) % Byte,
         movesSubmitted |-> game.movesSubmitted,
         state |-> game.state,
         players |-> game.players,
         winners |-> game.winners,
         revealedMoves |-> game.revealedMoves,
         revealRequestId |-> game.revealRequestId]

getGame(gameId) ==
    LET err == getExistingGameError(gameId)
        game == games[gameId]
    IN  IF err # NoError
        THEN [err |-> err]
        ELSE [err |-> NoError,
              host |-> game.host,
              maxPlayers |-> game.maxPlayers,
              currentPlayers |-> Len(game.players) % Byte,
              movesSubmitted |-> game.movesSubmitted,
              state |-> game.state,
              players |-> game.players,
              winners |-> game.winners,
              revealedMoves |-> game.revealedMoves,
              revealRequestId |-> game.revealRequestId]

getPlayerState(gameId, player) ==
    LET state == playerStates[gameId][player]
    IN  [joined |-> state.joined,
         moveSubmitted |-> state.moveSubmitted,
         moveRevealed |-> state.moveRevealed,
         revealedMove |-> state.revealedMove,
         encryptedMove |-> state.encryptedMove]

totalGames == nextGameId

\* The player count of the game a request id is routed to (0: not routed).
routedPlayerCount(requestId) ==
    IF requestToGame[requestId] = 0 THEN 0
    ELSE Len(games[requestToGame[requestId] - 1].players)

\* The payloads a caller may send with a callback.  The slot contents are
\* enumerated in full, and the shapes varied, where the contract goes on to read
\* them (the oracle, with a proof that verifies); elsewhere one payload stands for all.
CallbackPayloads(sender, requestId, proofOk) ==
    LET n == routedPlayerCount(requestId)
    IN  IF sender = decryptionOracle /\ proofOk
        THEN WellShaped(n) \cup MisShaped(n)
        ELSE { Payload([i \in 1..n |-> Paper], 0) }

\* Every transaction is one step: the external calls it makes return without
\* calling back into the contract.
Next ==
    \/ \E sender \in Address, maxPlayers \in MaxPlayersInputs :
          createGame(sender, maxPlayers) /\ UNCHANGED call
    \/ \E sender \in Address, gameId \in GameIds :
          joinGame(sender, gameId) /\ UNCHANGED call
    \/ \E sender \in Address, gameId \in GameIds :
          startGame(sender, gameId) /\ UNCHANGED call
    \/ \E sender \in Address, gameId \in GameIds, inputProofOk \in BOOLEAN :
          submitMove(sender, gameId, inputProofOk) /\ UNCHANGED call
    \/ \E sender \in Address, requestId \in RequestIds, proofOk \in BOOLEAN :
          \E cleartexts \in CallbackPayloads(sender, requestId, proofOk) :
              handleDecryptionResult(sender, requestId, cleartexts, proofOk) /\ UNCHANGED call

Spec == Init /\ [][Next]_vars

\* ------------------------------------------------------ the fair runs
\* the callbacks the decryption oracle delivers for a request of a game of
\* playerCount players: one slot per player, each holding a move
ValidPayloads(playerCount) ==
    { Payload(w, 0) : w \in [1..playerCount -> {Rock, Paper, Scissors}] }

\* a step that takes the game forward: an identity joins it, its host starts
\* it, a player submits a move with a valid input proof, or the oracle
\* answers its request
Progress(g) ==
    /\ \/ \E sender \in Address : joinGame(sender, g)
       \/ \E sender \in Address : sender = games[g].host /\ startGame(sender, g)
       \/ \E sender \in Address : submitMove(sender, g, TRUE)
       \/ \E requestId \in RequestIds, cleartexts \in ValidPayloads(games[g].maxPlayers) :
             /\ requestToGame[requestId] = g + 1
             /\ handleDecryptionResult(decryptionOracle, requestId, cleartexts, TRUE)
    /\ UNCHANGED call

\* The participants keep every game going: identities join it while it is
\* Open, its host starts it once it is Ready, each player submits, and the
\* oracle answers its request.
Fairness == \A g \in GameIds : WF_vars(Progress(g))

\* the callbacks followed in the fair runs: the valid ones, those of a wrong
\* length, and one with a slot that holds no move
LivePayloads(requestId) ==
    LET n == routedPlayerCount(requestId)
    IN  ValidPayloads(n) \cup MisShaped(n) \cup { Payload([i \in 1..n |-> 0], 0) }

\* bound: the seats of the games created in the fair runs
MaxLiveSeats == 3

NextLive ==
    \/ \E sender \in Address, maxPlayers \in MaxPlayersInputs :
          /\ createGameError(maxPlayers) = NoError => SeatsUsed + maxPlayers <= MaxLiveSeats
          /\ createGame(sender, maxPlayers)
          /\ UNCHANGED call
    \/ \E sender \in Address, gameId \in GameIds :
          joinGame(sender, gameId) /\ UNCHANGED call
    \/ \E sender \in Address, gameId \in GameIds :
          startGame(sender, gameId) /\ UNCHANGED call
    \/ \E sender \in Address, gameId \in GameIds, inputProofOk \in BOOLEAN :
          submitMove(sender, gameId, inputProofOk) /\ UNCHANGED call
    \/ \E sender \in {decryptionOracle, decryptionOracle + 1},
            requestId \in RequestIds, proofOk \in BOOLEAN :
          \E cleartexts \in LivePayloads(requestId) :
              handleDecryptionResult(sender, requestId, cleartexts, proofOk) /\ UNCHANGED call

SpecLive == Init /\ [][NextLive]_vars /\ Fairness

\* ------------------------------------------- submitMove, call by call
\* submitMove as the sequence of its external calls: the FHE library calls
\* the input verifier (FHE.fromExternal), the access-control list
\* (FHE.allowThis, FHE.allow) and the decryption service
\* (FHE.requestDecryption), and the contract's own writes lie between them.
\* While one of these calls is in progress the callee may call the contract.

\* the checks pass and FHE.fromExternal is called
submitMoveBegin(sender, gameId) ==
    /\ call = Idle
    /\ submitMoveError(sender, gameId, TRUE) = NoError
    /\ call' = [at |-> "fromExternal", sender |-> sender, gameId |-> gameId]
    /\ UNCHANGED <<nextGameId, games, playerStates, requestToGame, counterRequest, events>>

\* FHE.fromExternal returns: the handle and the flag are stored, the
\* access-control list is called
fromExternalReturns ==
    /\ call.at = "fromExternal"
    /\ playerStates' = [playerStates EXCEPT ![call.gameId][call.sender] =
                            [@ EXCEPT !.encryptedMove = fromExternal(call.sender),
                                      !.moveSubmitted = TRUE]]
    /\ call' = [call EXCEPT !.at = "allow"]
    /\ UNCHANGED <<nextGameId, games, requestToGame, counterRequest, events>>

\* FHE.allow returns: the move is counted and, when it is the last one,
\* _finalizeSubmissions sets the state and calls the decryption service
allowReturns ==
    LET gameId == call.gameId
        game == [games[gameId] EXCEPT !.movesSubmitted = (@ + 1) % Byte]
    IN  /\ call.at = "allow"
        /\ events' = emit(events, gameId, <<MoveSubmitted(gameId, call.sender)>>)
        /\ IF allMovesSubmitted(game)
           THEN /\ games' = [games EXCEPT ![gameId] = [game EXCEPT !.state = Revealing]]
                /\ call' = [call EXCEPT !.at = "requestDecryption"]
           ELSE /\ games' = [games EXCEPT ![gameId] = game]
                /\ call' = Idle
        /\ UNCHANGED <<nextGameId, playerStates, requestToGame, counterRequest>>

\* FHE.requestDecryption returns: the request id is stored and indexed
requestDecryptionReturns ==
    LET gameId == call.gameId
        game == games[gameId]
        playerCount == Len(game.players)
        handles == [i \in 1..playerCount |->
                       playerStates[gameId][game.players[i]].encryptedMove]
        requestId == counterRequest
    IN  /\ call.at = "requestDecryption"
        /\ requestId \in RequestIds
        /\ games' = [games EXCEPT ![gameId].revealRequestId = requestId]
        /\ counterRequest' = counterRequest + 1
        /\ requestToGame' = [requestToGame EXCEPT ![requestId] = gameId + 1]
        /\ events' = emit([events EXCEPT ![gameId].revealRequested =
                                 Append(@, [requestId |-> requestId, handles |-> handles])],
                          gameId, <<RevealRequested(gameId, requestId)>>)
        /\ call' = Idle
        /\ UNCHANGED <<nextGameId, playerStates>>

\* bound: the games created while the calls of submitMove are followed
MaxReentrantGames == 1

\* the callback payload followed: every player of the game played Paper
AllPaper(requestId) == Payload([i \in 1..routedPlayerCount(requestId) |-> Paper], 0)

\* a transaction that runs in one step: a top-level one other than
\* submitMove, or one the callee of the call in progress makes
Transaction(sender) ==
    \/ \E maxPlayers \in MaxPlayersInputs :
          nextGameId < MaxReentrantGames /\ createGame(sender, maxPlayers)
    \/ \E gameId \in GameIds : joinGame(sender, gameId)
    \/ \E gameId \in GameIds : startGame(sender, gameId)
    \/ \E requestId \in RequestIds :
          handleDecryptionResult(sender, requestId, AllPaper(requestId), TRUE)

\* the callees followed: one deployed at the address of the player whose
\* submitMove is in progress, and the decryption oracle
Callees == IF call = Idle THEN {} ELSE {call.sender, decryptionOracle}

\* the callee of the call in progress calls submitMove, which runs to its end
reenterSubmitMove(callee) ==
    /\ call # Idle
    /\ \E gameId \in GameIds : submitMove(callee, gameId, TRUE)
    /\ UNCHANGED call

\* the callee of the call in progress calls another operation
reenter(callee) ==
    /\ call # Idle
    /\ Transaction(callee)
    /\ UNCHANGED call

NextReentrant ==
    \/ \E sender \in Address : call = Idle /\ Transaction(sender) /\ UNCHANGED call
    \/ \E sender \in Address, gameId \in GameIds : submitMoveBegin(sender, gameId)
    \/ fromExternalReturns
    \/ allowReturns
    \/ requestDecryptionReturns
    \/ \E callee \in Callees : reenterSubmitMove(callee)
    \/ \E callee \in Callees : reenter(callee)

SpecReentrant == Init /\ [][NextReentrant]_vars

\* ================================================================ claims
ExistingGames == { g \in GameIds : games[g].host # ZeroAddress }

Range(seq) == { seq[i] : i \in 1..Len(seq) }

Submitted(ledger) == { a \in Address : ledger[a].moveSubmitted }

\* the request ids a game has asked the decryption service for
RequestsOf(g) == { events[g].revealRequested[i].requestId :
                      i \in 1..Len(events[g].revealRequested) }

\* issued by some game whose callback has not been accepted yet
Outstanding(r) ==
    \E g \in GameIds : r \in RequestsOf(g) /\ Len(events[g].gameRevealed) = 0

\* the call can change the state: an operation that reverts changes nothing
Changes(operation) == ENABLED <<operation /\ UNCHANGED call>>_vars

\* callback payloads of several shapes and contents
SamplePayloads ==
    MisShaped(2) \cup { Payload(<<Rock, Paper>>, 0), Payload(<<Scissors, Scissors, Rock>>, 0),
                        Payload(<<Paper, 0, Rock, Scissors>>, 0) }

\* the payloads that decode to the revealed moves of some game
RevealedPayloads == { Payload(games[g].revealedMoves, 0) : g \in GameIds }

\* ----------------------------------------------------------------- C1
\* C1: per game the RevealRequested log never holds more than one entry, it
\* holds one exactly when all maxPlayers moves are in, and the entry appears
\* in the very step in which the last missing player submits (the count of
\* submitted players goes from maxPlayers - 1 to maxPlayers, Started to
\* Revealing); conversely that step always issues it.
C1_RevealRequestedOnce ==
    [][\A g \in GameIds :
        LET before == Len(events[g].revealRequested)
            after == Len(events'[g].revealRequested)
            lastSubmit ==
                /\ games[g].state = Started /\ games'[g].state = Revealing
                /\ games'[g].movesSubmitted = games[g].movesSubmitted + 1
                /\ games'[g].movesSubmitted = games'[g].maxPlayers
                /\ Cardinality(Submitted(playerStates[g])) = games[g].maxPlayers - 1
                /\ Cardinality(Submitted(playerStates'[g])) = games[g].maxPlayers
        IN  /\ after <= 1
            /\ after = 1 <=> (g \in ExistingGames'
                              /\ games'[g].movesSubmitted = games'[g].maxPlayers)
            /\ after # before <=> lastSubmit
            /\ after # before => before = 0]_vars

C1_Witness ==
    \E g \in ExistingGames :
        /\ games[g].maxPlayers = 3
        /\ games[g].state = Revealed
        /\ Len(events[g].revealRequested) = 1
        /\ Cardinality(Submitted(playerStates[g])) = 3

\* ----------------------------------------------------------------- C2
\* C2 as stated: a callback for a request id that is not outstanding fails
\* with InvalidRevealRequest, whoever sends it.
C2_Original ==
    \A sender \in Address, r \in RequestIds, c \in SamplePayloads, ok \in BOOLEAN :
        ~Outstanding(r) =>
            handleDecryptionResultError(sender, r, c, ok) = InvalidRevealRequest(r)

\* C2 amended: a callback for a request id that is not outstanding (never
\* issued, or consumed by an accepted callback) fails with InvalidRevealRequest
\* when the oracle sends it and with Unauthorized when anyone else does, and
\* such a callback changes nothing, whatever it carries.
C2_StaleRequestRejected ==
    \A sender \in Address, r \in RequestIds, ok \in BOOLEAN :
        ~Outstanding(r) =>
            \A c \in SamplePayloads \cup RevealedPayloads :
                /\ handleDecryptionResultError(sender, r, c, ok) =
                      IF sender = decryptionOracle
                      THEN InvalidRevealRequest(r) ELSE Unauthorized(sender)
                /\ ~Changes(handleDecryptionResult(sender, r, c, ok))

\* a request id that was issued and consumed, and one that was never issued
C2_Witness ==
    \E r1, r2 \in RequestIds :
        /\ \E g \in GameIds : r1 \in RequestsOf(g) /\ games[g].state = Revealed
        /\ \A g \in GameIds : r2 \notin RequestsOf(g)
        /\ handleDecryptionResultError(decryptionOracle, r1, Payload(<<Rock, Paper>>, 0), TRUE)
               = InvalidRevealRequest(r1)
        /\ handleDecryptionResultError(decryptionOracle, r2, Payload(<<Rock, Paper>>, 0), TRUE)
               = InvalidRevealRequest(r2)

\* ----------------------------------------------------------------- C3
\* C3: in every step taken from a state in which a game is Revealed, the
\* game's state, winners and revealedMoves and every identity's revealedMove
\* and moveRevealed for that game stay as they are.
C3_RevealedIsFinal ==
    [][\A g \in GameIds :
        games[g].state = Revealed =>
            /\ games'[g].state = Revealed
            /\ games'[g].winners = games[g].winners
            /\ games'[g].revealedMoves = games[g].revealedMoves
            /\ \A a \in Address :
                /\ playerStates'[g][a].revealedMove = playerStates[g][a].revealedMove
                /\ playerStates'[g][a].moveRevealed = playerStates[g][a].moveRevealed]_vars

\* a Revealed game beside a second game that has been played on to Revealed too
C3_Witness ==
    /\ games[0].state = Revealed
    /\ games[0].winners # <<>>
    /\ games[1].state = Revealed

\* ----------------------------------------------------------------- C4
\* C4 as stated: on a Revealed game joinGame, startGame and submitMove fail
\* with GameStateMismatch for every caller.
C4_Original ==
    \A g \in ExistingGames, sender \in Address, ok \in BOOLEAN :
        games[g].state = Revealed =>
            /\ joinGameError(sender, g).kind = "GameStateMismatch"
            /\ startGameError(sender, g).kind = "GameStateMismatch"
            /\ submitMoveError(sender, g, ok).kind = "GameStateMismatch"

\* C4 amended: on a Revealed game joinGame and submitMove fail with
\* GameStateMismatch for every caller; startGame fails with GameStateMismatch
\* when the host calls it and with Unauthorized when anyone else does.
C4_RevealedRejectsCalls ==
    \A g \in ExistingGames, sender \in Address, ok \in BOOLEAN :
        games[g].state = Revealed =>
            /\ joinGameError(sender, g) = GameStateMismatch(g, Open, Revealed)
            /\ submitMoveError(sender, g, ok) = GameStateMismatch(g, Started, Revealed)
            /\ startGameError(sender, g) =
                  IF sender = games[g].host
                  THEN GameStateMismatch(g, Ready, Revealed)
                  ELSE Unauthorized(sender)

\* a Revealed game, with callers who played in it and callers who did not
C4_Witness ==
    \E g \in ExistingGames :
        /\ games[g].state = Revealed
        /\ \E a, b \in Address : playerStates[g][a].joined /\ ~playerStates[g][b].joined
        /\ \A a \in Address : submitMoveError(a, g, TRUE).kind = "GameStateMismatch"

\* ----------------------------------------------------------------- C5
\* C5: every game has at most maxPlayers players; it is Ready exactly when it
\* is full and not yet started (its state is Open or Ready), so an Open game
\* has fewer than maxPlayers players.
C5_ReadyIffFull ==
    \A g \in ExistingGames :
        /\ Len(games[g].players) <= games[g].maxPlayers
        /\ games[g].state = Ready <=>
              (Len(games[g].players) = games[g].maxPlayers /\ games[g].state \in {Open, Ready})
        /\ games[g].state = Open => Len(games[g].players) < games[g].maxPlayers

\* a game that has just filled up beside one that is still filling
C5_Witness ==
    \E g, h \in ExistingGames :
        /\ games[g].state = Ready /\ Len(games[g].players) = games[g].maxPlayers
        /\ games[h].state = Open /\ Len(games[h].players) = 1

\* ----------------------------------------------------------------- C6
\* C6 as stated: a player who has submitted gets MoveAlreadySubmitted from a
\* further submitMove in whatever state the game is by then.
C6_Original ==
    \A g \in ExistingGames, a \in Address, ok \in BOOLEAN :
        playerStates[g][a].moveSubmitted =>
            submitMoveError(a, g, ok) = MoveAlreadySubmitted(g, a)

\* C6 amended: a further submitMove by a player who has submitted always
\* fails: with MoveAlreadySubmitted while the game is still Started, and with
\* GameStateMismatch once the game is Revealing or Revealed.
C6_SecondSubmitRejected ==
    \A g \in ExistingGames, a \in Address, ok \in BOOLEAN :
        playerStates[g][a].moveSubmitted =>
            /\ games[g].state \in {Started, Revealing, Revealed}
            /\ submitMoveError(a, g, ok) =
                  IF games[g].state = Started
                  THEN MoveAlreadySubmitted(g, a)
                  ELSE GameStateMismatch(g, Started, games[g].state)

\* a Started game in which one player has submitted and another has not
C6_Witness ==
    \E g \in ExistingGames, a, b \in Address :
        /\ games[g].state = Started
        /\ playerStates[g][a].moveSubmitted
        /\ playerStates[g][b].joined /\ ~playerStates[g][b].moveSubmitted
        /\ submitMoveError(a, g, TRUE) = MoveAlreadySubmitted(g, a)

\* ----------------------------------------------------------------- C7
\* C7 as stated: joinGame, startGame, submitMove and the oracle callback, called
\* by anyone on an existing game that is not in the state they require, fail
\* with GameStateMismatch reporting the expected and the actual state.
C7_Original ==
    \A g \in ExistingGames, sender \in Address, ok \in BOOLEAN :
        /\ games[g].state # Open =>
              joinGameError(sender, g) = GameStateMismatch(g, Open, games[g].state)
        /\ games[g].state # Ready =>
              startGameError(sender, g) = GameStateMismatch(g, Ready, games[g].state)
        /\ games[g].state # Started =>
              submitMoveError(sender, g, ok) = GameStateMismatch(g, Started, games[g].state)
        /\ games[g].state # Revealing =>
              \A r \in RequestsOf(g), c \in SamplePayloads :
                  handleDecryptionResultError(sender, r, c, ok) =
                      GameStateMismatch(g, Revealing, games[g].state)

\* C7 amended: on an existing game that is not in the required state, joinGame
\* (Open) and submitMove (Started) fail for every caller with GameStateMismatch
\* reporting the expected and the actual state; startGame (Ready) does so when
\* the host calls it and fails with Unauthorized for any other caller; a
\* callback for the request of a game that is no longer Revealing fails with
\* InvalidRevealRequest from the oracle and Unauthorized from anyone else, and
\* no callback ever fails with GameStateMismatch.
C7_StateGuards ==
    /\ \A g \in ExistingGames, sender \in Address, ok \in BOOLEAN :
        /\ games[g].state # Open =>
              joinGameError(sender, g) = GameStateMismatch(g, Open, games[g].state)
        /\ games[g].state # Ready =>
              startGameError(sender, g) =
                  IF sender = games[g].host
                  THEN GameStateMismatch(g, Ready, games[g].state)
                  ELSE Unauthorized(sender)
        /\ games[g].state # Started =>
              submitMoveError(sender, g, ok) = GameStateMismatch(g, Started, games[g].state)
        /\ games[g].state # Revealing =>
              \A r \in RequestsOf(g), c \in SamplePayloads :
                  handleDecryptionResultError(sender, r, c, ok) =
                      IF sender = decryptionOracle
                      THEN InvalidRevealRequest(r) ELSE Unauthorized(sender)
    /\ \A sender \in Address, r \in RequestIds, c \in SamplePayloads, ok \in BOOLEAN :
          handleDecryptionResultError(sender, r, c, ok).kind # "GameStateMismatch"

\* games in two different states, one of them past its callback, each refusing
\* the calls of the other stages
C7_Witness ==
    \E g, h \in ExistingGames :
        /\ games[g].state = Revealed /\ RequestsOf(g) # {}
        /\ games[h].state = Started
        /\ joinGameError(games[h].host, h) = GameStateMismatch(h, Open, Started)
        /\ startGameError(games[h].host, h) = GameStateMismatch(h, Ready, Started)
        /\ submitMoveError(games[g].host, g, TRUE) = GameStateMismatch(g, Started, Revealed)

\* ----------------------------------------------------------------- C8
\* the reference rule on the set of moves present
ReferenceWinningMove(present) ==
    IF present = {Rock, Paper} THEN Paper
    ELSE IF present = {Paper, Scissors} THEN Scissors
    ELSE IF present = {Rock, Scissors} THEN Rock
    ELSE 0

MovesPresent(hasRock, hasPaper, hasScissors) ==
    (IF hasRock THEN {Rock} ELSE {}) \cup (IF hasPaper THEN {Paper} ELSE {})
        \cup (IF hasScissors THEN {Scissors} ELSE {})

\* C8: the winning move a Revealed game announced with GameRevealed is the
\* reference rule applied to the set of its revealed moves, and
\* _determineWinningMove agrees with the reference rule on every combination
\* of the three presence flags.
C8_WinningMoveRule ==
    /\ \A g \in ExistingGames :
          games[g].state = Revealed =>
              /\ Len(events[g].gameRevealed) = 1
              /\ events[g].gameRevealed[1].winningMove =
                    ReferenceWinningMove(Range(games[g].revealedMoves))
    /\ \A hasRock, hasPaper, hasScissors \in BOOLEAN :
          determineWinningMove(hasRock, hasPaper, hasScissors) =
              ReferenceWinningMove(MovesPresent(hasRock, hasPaper, hasScissors))

\* Rock and Scissors revealed; Rock announced as the winning move
C8_Witness ==
    \E g \in ExistingGames :
        /\ games[g].state = Revealed
        /\ Range(games[g].revealedMoves) = {Rock, Scissors}
        /\ events[g].gameRevealed[1].winningMove = Rock

\* ----------------------------------------------------------------- C9
\* the sub-sequence of players whose revealed move in game g is move
PlayersWithMove(g, move) ==
    SelectSeq(games[g].players, LAMBDA p : playerStates[g][p].revealedMove = move)

NoDuplicates(seq) == \A i, j \in 1..Len(seq) : seq[i] = seq[j] => i = j

\* C9: a Revealed game has 2 to 4 players, and its winners are exactly the
\* players, in join order and without duplicates, whose revealed move is the
\* winning move of the reference rule; there is no winner when that rule names
\* no winning move.
C9_WinnersAreWinningPlayers ==
    \A g \in ExistingGames :
        games[g].state = Revealed =>
            LET winningMove == ReferenceWinningMove(Range(games[g].revealedMoves))
            IN  /\ Len(games[g].players) \in MinPlayers..MaxPlayers
                /\ NoDuplicates(games[g].winners)
                /\ games[g].winners =
                      IF winningMove = 0 THEN <<>> ELSE PlayersWithMove(g, winningMove)

\* three players, the host and the last to join win, the one between them loses
C9_Witness ==
    \E g \in ExistingGames :
        /\ games[g].state = Revealed
        /\ Len(games[g].players) = 3
        /\ games[g].revealedMoves = <<Scissors, Paper, Scissors>>
        /\ games[g].winners = <<games[g].players[1], games[g].players[3]>>

\* ---------------------------------------------------------------- C10
\* players and revealed moves of game g, both reordered by perm, as the join
\* order and the payload of another run
Permuted(seq, perm) == [i \in 1..Len(seq) |-> seq[perm[i]]]

IsSubSeqOf(sub, seq) == sub = SelectSeq(seq, LAMBDA p : p \in Range(sub))

MoveOf(g) == [a \in Range(games[g].players) |-> playerStates[g][a].revealedMove]

\* C10: for every Revealed game and every permutation of its join order, the
\* callback's resolution of the permuted players with the correspondingly
\* permuted moves yields the same set of winners, listed in the permuted join
\* order; and two Revealed games with the same players holding the same moves
\* have the same set of winners.
C10_OrderIndependent ==
    /\ \A g \in ExistingGames :
          games[g].state = Revealed =>
              \A perm \in Permutations(1..Len(games[g].players)) :
                  LET players == Permuted(games[g].players, perm)
                      outcome == revealOutcome(players, playerStates[g],
                                     Payload(Permuted(games[g].revealedMoves, perm), 0))
                  IN  /\ outcome.err = NoError
                      /\ Range(outcome.winners) = Range(games[g].winners)
                      /\ IsSubSeqOf(outcome.winners, players)
    /\ \A g, h \in ExistingGames :
          (games[g].state = Revealed /\ games[h].state = Revealed /\ MoveOf(g) = MoveOf(h))
              => Range(games[g].winners) = Range(games[h].winners)

\* two games of the same two players who joined in opposite orders and hold the
\* same moves, with one winner
C10_Witness ==
    \E g, h \in ExistingGames :
        /\ games[g].state = Revealed /\ games[h].state = Revealed
        /\ MoveOf(g) = MoveOf(h)
        /\ games[g].players # games[h].players
        /\ Len(games[g].winners) = 1
        /\ games[g].winners = games[h].winners

\* ---------------------------------------------------------------- C11
\* every value a uint8 argument can take
Uint8 == 0..(Byte - 1)

\* C11: createGame reverts with InvalidPlayerLimit for every maxPlayers outside
\* 2..4 and a reverted call changes nothing; for every maxPlayers in 2..4 it
\* raises no error, and the step that creates a game takes the id nextGameId,
\* advances nextGameId by one, leaves the other games alone and leaves the new
\* game Open with host = caller, players = <<caller>>, maxPlayers in 2..4 and
\* movesSubmitted = 0, the caller joined with no move submitted and nobody
\* else joined.
C11_CreateGame ==
    /\ [](\A maxPlayers \in Uint8 :
            createGameError(maxPlayers) =
                IF maxPlayers \in MinPlayers..MaxPlayers THEN NoError ELSE InvalidPlayerLimit)
    /\ [][\/ UNCHANGED vars
          \/ /\ \A sender \in Address, maxPlayers \in MaxPlayersInputs :
                    createGameError(maxPlayers) # NoError => ~createGame(sender, maxPlayers)
             /\ nextGameId' # nextGameId =>
                    LET g == nextGameId
                        caller == games'[g].host
                    IN  /\ nextGameId' = nextGameId + 1
                        /\ games[g] = EmptyGame
                        /\ caller \in Address
                        /\ games'[g] = [EmptyGame EXCEPT !.host = caller,
                                            !.maxPlayers = games'[g].maxPlayers,
                                            !.players = <<caller>>]
                        /\ games'[g].state = Open /\ games'[g].movesSubmitted = 0
                        /\ games'[g].maxPlayers \in MinPlayers..MaxPlayers
                        /\ playerStates'[g] =
                              [a \in Address |->
                                  IF a = caller THEN [EmptyPlayerState EXCEPT !.joined = TRUE]
                                  ELSE EmptyPlayerState]
                        /\ \A h \in GameIds \ {g} :
                              games'[h] = games[h] /\ playerStates'[h] = playerStates[h]
                        /\ events' = [events EXCEPT ![g].log =
                              <<"GameCreated", "PlayerJoined">>]
                        /\ createGameEvents(caller, games'[g].maxPlayers) =
                              <<GameCreated(g, caller, games'[g].maxPlayers),
                                PlayerJoined(g, caller)>>
                        /\ UNCHANGED <<requestToGame, counterRequest>>]_vars

\* a game of two seats just created beside an earlier one, by a caller who
\* plays in both
C11_Witness ==
    /\ nextGameId = 2
    /\ games[1].state = Open /\ games[1].maxPlayers = MinPlayers
    /\ games[1].players = <<games[1].host>>
    /\ playerStates[1][games[1].host] = [EmptyPlayerState EXCEPT !.joined = TRUE]
    /\ playerStates[0][games[1].host].joined
    /\ games[0].state = Revealing

\* ---------------------------------------------------------------- C12
\* the step is a call of one of the four player operations, by anyone
PlayerOperationStep ==
    \/ \E sender \in Address, maxPlayers \in MaxPlayersInputs : createGame(sender, maxPlayers)
    \/ \E sender \in Address, gameId \in GameIds : joinGame(sender, gameId)
    \/ \E sender \in Address, gameId \in GameIds : startGame(sender, gameId)
    \/ \E sender \in Address, gameId \in GameIds, inputProofOk \in BOOLEAN :
          submitMove(sender, gameId, inputProofOk)

\* C12: handleDecryptionResult called by anyone but the decryption oracle
\* reverts with Unauthorized naming the caller, whatever the request id, the
\* payload and the proof, and changes nothing; and a step that takes a game
\* from Revealing to Revealed is the oracle's callback for that game's request
\* with a verified proof, not a step of a callback by anyone else and not a
\* step of any other operation.
C12_OnlyOracleReveals ==
    /\ [](\A sender \in Address \ {decryptionOracle}, r \in RequestIds,
             c \in SamplePayloads, ok \in BOOLEAN :
            handleDecryptionResultError(sender, r, c, ok) = Unauthorized(sender))
    /\ [][\A g \in GameIds :
            (games[g].state = Revealing /\ games'[g].state = Revealed) =>
                LET r == games[g].revealRequestId
                    c == Payload(games'[g].revealedMoves, 0)
                IN  /\ handleDecryptionResult(decryptionOracle, r, c, TRUE)
                    /\ \A sender \in Address \ {decryptionOracle}, q \in RequestIds,
                          ok \in BOOLEAN :
                            ~handleDecryptionResult(sender, q, c, ok)
                    /\ ~PlayerOperationStep]_vars

\* one game revealed by the oracle, another waiting for its callback, which a
\* player of that game cannot deliver in the oracle's place
C12_Witness ==
    \E g, h \in ExistingGames, a \in Address \ {decryptionOracle} :
        /\ games[g].state = Revealed /\ Len(events[g].gameRevealed) = 1
        /\ games[h].state = Revealing
        /\ playerStates[h][a].joined
        /\ handleDecryptionResultError(a, games[h].revealRequestId,
                                       Payload(<<Rock, Paper>>, 0), TRUE) = Unauthorized(a)
        /\ handleDecryptionResultError(decryptionOracle, games[h].revealRequestId,
                                       Payload(<<Rock, Paper>>, 0), TRUE) = NoError

\* ---------------------------------------------------------------- C13
\* the number of bytes of a payload
ByteCount(c) == SlotBytes * Len(c.words) + c.trailing

\* payloads whose length differs from n slots
WrongLength(n) ==
    { c \in MisShaped(n) \cup SamplePayloads : ByteCount(c) # n * SlotBytes }

\* C13 as stated: the oracle's callback for an outstanding request with a
\* payload of the wrong length fails with UnexpectedResultLength, whatever
\* proof comes with it.
C13_Original ==
    \A r \in RequestIds, ok \in BOOLEAN :
        Outstanding(r) =>
            \A c \in WrongLength(routedPlayerCount(r)) :
                handleDecryptionResultError(decryptionOracle, r, c, ok) =
                    UnexpectedResultLength(routedPlayerCount(r) * SlotBytes,
                                           ByteCount(c))

\* C13 amended: the oracle's callback for an outstanding request with a
\* payload whose length is not players.length * 32 fails with
\* UnexpectedResultLength(players.length * 32, length) when its proof verifies
\* and inside the signature check when it does not, and no step that changes
\* a variable is a step of such a callback.
C13_WrongLengthRejected ==
    \A r \in RequestIds, ok \in BOOLEAN :
        Outstanding(r) =>
            \A c \in WrongLength(routedPlayerCount(r)) :
                /\ handleDecryptionResultError(decryptionOracle, r, c, ok) =
                      IF ok
                      THEN UnexpectedResultLength(routedPlayerCount(r) * SlotBytes,
                                                  ByteCount(c))
                      ELSE InvalidKMSSignatures
                /\ ~Changes(handleDecryptionResult(decryptionOracle, r, c, ok))

\* three players wait for the reveal; payloads of two slots, of four slots
\* and of three slots and 31 bytes are refused
C13_Witness ==
    \E g \in ExistingGames :
        LET r == games[g].revealRequestId
        IN  /\ games[g].state = Revealing /\ Len(games[g].players) = 3
            /\ Outstanding(r)
            /\ handleDecryptionResultError(decryptionOracle, r,
                    Payload(<<Rock, Paper>>, 0), TRUE) = UnexpectedResultLength(96, 64)
            /\ handleDecryptionResultError(decryptionOracle, r,
                    Payload(<<Paper, Paper, Paper, Paper>>, 0), TRUE)
                        = UnexpectedResultLength(96, 128)
            /\ handleDecryptionResultError(decryptionOracle, r,
                    Payload(<<Paper, Paper, Paper>>, 31), TRUE)
                        = UnexpectedResultLength(96, 127)

\* ---------------------------------------------------------------- C14
\* the value a slot decodes to, and the slots that decode to no move
Decoded(word) == word % Byte

InvalidSlots(c) == { i \in 1..Len(c.words) : Decoded(c.words[i]) \notin {Rock, Paper, Scissors} }

FirstInvalidValue(c) ==
    Decoded(c.words[CHOOSE i \in InvalidSlots(c) : \A j \in InvalidSlots(c) : i <= j])

\* C14: a callback that reaches the decoding of a payload (the oracle's, for
\* the request of a Revealing game, with a verified proof and the right
\* length) in which some slot decodes to a value outside {1,2,3} fails with
\* InvalidMoveValue naming the first such value.  No partial write survives:
\* a Revealing game has empty revealedMoves and winners, no player with
\* moveRevealed or a revealedMove, and its request registered, and every step
\* either leaves all of that as it is or reveals the game completely, with a
\* move in {1,2,3} recorded for every player and the request consumed.
C14_InvalidMoveAtomic ==
    /\ [](\A g \in ExistingGames :
            games[g].state = Revealing =>
                LET r == games[g].revealRequestId
                IN  /\ games[g].revealedMoves = <<>> /\ games[g].winners = <<>>
                    /\ \A a \in Address :
                          ~playerStates[g][a].moveRevealed /\ playerStates[g][a].revealedMove = 0
                    /\ requestToGame[r] = g + 1
                    /\ \A c \in WellShaped(Len(games[g].players)) :
                          InvalidSlots(c) # {} =>
                              handleDecryptionResultError(decryptionOracle, r, c, TRUE) =
                                  InvalidMoveValue(FirstInvalidValue(c)))
    /\ [][\A g \in ExistingGames :
            games[g].state = Revealing =>
                LET r == games[g].revealRequestId
                    players == games[g].players
                IN  \/ /\ games'[g] = games[g]
                       /\ playerStates'[g] = playerStates[g]
                       /\ requestToGame'[r] = requestToGame[r]
                    \/ /\ games'[g].state = Revealed
                       /\ Len(games'[g].revealedMoves) = Len(players)
                       /\ \A i \in 1..Len(players) :
                             /\ games'[g].revealedMoves[i] \in {Rock, Paper, Scissors}
                             /\ playerStates'[g][players[i]].moveRevealed
                             /\ playerStates'[g][players[i]].revealedMove =
                                   games'[g].revealedMoves[i]
                       /\ requestToGame'[r] = 0]_vars

\* three players wait for the reveal; payloads with an invalid last slot
\* after two valid ones, with two invalid slots, and with a slot whose low
\* byte is a move are told apart
C14_Witness ==
    \E g \in ExistingGames :
        LET r == games[g].revealRequestId
        IN  /\ games[g].state = Revealing /\ Len(games[g].players) = 3
            /\ handleDecryptionResultError(decryptionOracle, r,
                    Payload(<<Rock, Paper, 4>>, 0), TRUE) = InvalidMoveValue(4)
            /\ handleDecryptionResultError(decryptionOracle, r,
                    Payload(<<Rock, 0, 4>>, 0), TRUE) = InvalidMoveValue(0)
            /\ handleDecryptionResultError(decryptionOracle, r,
                    Payload(<<257, Paper, Scissors>>, 0), TRUE) = NoError
            /\ \A a \in Address : ~playerStates[g][a].moveRevealed

\* ---------------------------------------------------------------- C15
\* C15: the oracle's callback for the request of a Revealing game with a
\* proof that does not verify reverts inside the signature check whatever the
\* payload holds (well shaped or not, valid moves or not: the payload is not
\* looked at), the same payload being accepted or refused on its content when
\* the proof verifies; the game is still Revealing with empty winners and
\* revealedMoves and its request registered, and a callback whose proof does
\* not verify changes nothing, whoever sends it and for whichever request.
C15_ProofFailureAborts ==
    /\ \A g \in ExistingGames :
          games[g].state = Revealing =>
              LET r == games[g].revealRequestId
                  n == Len(games[g].players)
              IN  /\ \A c \in WellShaped(n) \cup MisShaped(n) :
                        /\ handleDecryptionResultError(decryptionOracle, r, c, FALSE) =
                              InvalidKMSSignatures
                        /\ ~Changes(handleDecryptionResult(decryptionOracle, r, c, FALSE))
                  /\ games[g].winners = <<>> /\ games[g].revealedMoves = <<>>
                  /\ requestToGame[r] = g + 1
    /\ \A sender \in Address, r \in RequestIds :
          \A c \in SamplePayloads \cup RevealedPayloads :
              ~Changes(handleDecryptionResult(sender, r, c, FALSE))

\* a Revealing game whose callback payload is accepted with a verified proof
\* and refused without one, beside a game revealed earlier
C15_Witness ==
    \E g, h \in ExistingGames :
        LET r == games[g].revealRequestId
        IN  /\ games[g].state = Revealing /\ Len(games[g].players) = 2
            /\ games[h].state = Revealed
            /\ handleDecryptionResultError(decryptionOracle, r,
                    Payload(<<Scissors, Paper>>, 0), FALSE) = InvalidKMSSignatures
            /\ handleDecryptionResultError(decryptionOracle, r,
                    Payload(<<Scissors, Paper>>, 0), TRUE) = NoError
            /\ handleDecryptionResultError(decryptionOracle, r,
                    Payload(<<Scissors, 0>>, 0), FALSE) = InvalidKMSSignatures

\* ---------------------------------------------------------------- C16
\* the step is a call of an operation other than startGame, by anyone
OtherThanStartStep ==
    \/ \E sender \in Address, maxPlayers \in MaxPlayersInputs : createGame(sender, maxPlayers)
    \/ \E sender \in Address, gameId \in GameIds : joinGame(sender, gameId)
    \/ \E sender \in Address, gameId \in GameIds, inputProofOk \in BOOLEAN :
          submitMove(sender, gameId, inputProofOk)
    \/ \E sender \in Address, requestId \in RequestIds, proofOk \in BOOLEAN :
          \E cleartexts \in CallbackPayloads(sender, requestId, proofOk) :
              handleDecryptionResult(sender, requestId, cleartexts, proofOk)

\* C16: startGame on an existing game by anyone but its host reverts with
\* Unauthorized naming the caller, in whatever state the game is, and the host
\* gets no error exactly when the game is Ready; a step in which a game
\* becomes Started starts from Ready, is the host's startGame of that game
\* (changing nothing but the state), is not a startGame by anyone else and is
\* not a step of any other operation; and the host never changes.
C16_OnlyHostStarts ==
    /\ [](\A g \in ExistingGames, sender \in Address :
            /\ sender # games[g].host => startGameError(sender, g) = Unauthorized(sender)
            /\ startGameError(games[g].host, g) = NoError <=> games[g].state = Ready)
    /\ [][\A g \in GameIds :
            /\ (games[g].state # Started /\ games'[g].state = Started) =>
                    /\ games[g].state = Ready
                    /\ startGame(games[g].host, g)
                    /\ games' = [games EXCEPT ![g].state = Started]
                    /\ \A sender \in Address \ {games[g].host}, h \in GameIds :
                          ~startGame(sender, h)
                    /\ ~OtherThanStartStep
            /\ g \in ExistingGames => games'[g].host = games[g].host]_vars

\* a game its host has just started, which the other player could not have
\* started, beside a Ready game only its host can start
C16_Witness ==
    \E g, h \in ExistingGames, a, b \in Address :
        /\ games[g].state = Started /\ games[g].movesSubmitted = 0
        /\ playerStates[g][a].joined /\ a # games[g].host
        /\ startGameError(a, g) = Unauthorized(a)
        /\ games[h].state = Ready
        /\ playerStates[h][b].joined /\ b # games[h].host
        /\ startGameError(b, h) = Unauthorized(b)
        /\ startGameError(games[h].host, h) = NoError

\* ---------------------------------------------------------------- C17
\* C17: submitMove on a Started game by an identity that is not among its
\* players reverts with PlayerNotInGame naming game and caller, whatever the
\* input proof, and no step that changes a variable is a step of such a call;
\* the joined flag is set exactly for the identities in players; whoever has
\* moveSubmitted set or an encrypted move stored is in players, and the step
\* that sets a moveSubmitted flag is that player's own submitMove.
C17_OnlyPlayersSubmit ==
    /\ [](\A g \in GameIds, a \in Address :
            /\ playerStates[g][a].joined <=> a \in Range(games[g].players)
            /\ (playerStates[g][a].moveSubmitted \/ playerStates[g][a].encryptedMove # 0)
                  => a \in Range(games[g].players)
            /\ (games[g].state = Started /\ a \notin Range(games[g].players)) =>
                  \A ok \in BOOLEAN : submitMoveError(a, g, ok) = PlayerNotInGame(g, a))
    /\ [][\/ UNCHANGED vars
          \/ \A g \in GameIds, a \in Address :
                /\ (games[g].state = Started /\ a \notin Range(games[g].players)) =>
                      \A ok \in BOOLEAN : ~submitMove(a, g, ok)
                /\ (~playerStates[g][a].moveSubmitted /\ playerStates'[g][a].moveSubmitted) =>
                      /\ a \in Range(games[g].players)
                      /\ submitMove(a, g, TRUE)]_vars

\* a Started game in which a player has submitted and which an outsider,
\* playing in another game, cannot submit to
C17_Witness ==
    \E g, h \in ExistingGames, a, b \in Address :
        /\ games[g].state = Started
        /\ a \in Range(games[g].players) /\ playerStates[g][a].moveSubmitted
        /\ playerStates[g][a].encryptedMove = fromExternal(a)
        /\ b \notin Range(games[g].players) /\ b \in Range(games[h].players)
        /\ submitMoveError(b, g, TRUE) = PlayerNotInGame(g, b)
        /\ ~playerStates[g][b].moveSubmitted

\* ---------------------------------------------------------------- C18
IsFull(g) == Len(games[g].players) >= games[g].maxPlayers

\* C18 as stated: joinGame on a full game fails with GameIsFull.
C18_Original ==
    \A g \in ExistingGames, sender \in Address :
        IsFull(g) => joinGameError(sender, g) = GameIsFull(g)

\* C18 amended: a full game is never Open, so joinGame on a full game fails
\* for every caller with GameStateMismatch (expected Open, actual the state
\* the game is in) and GameIsFull is never raised; a joinGame on a full game
\* changes nothing, so its players stay as they are.
C18_FullGameRejectsJoin ==
    \A g \in GameIds, sender \in Address :
        /\ joinGameError(sender, g).kind # "GameIsFull"
        /\ (g \in ExistingGames /\ IsFull(g)) =>
              /\ games[g].state # Open
              /\ Len(games[g].players) = games[g].maxPlayers
              /\ joinGameError(sender, g) = GameStateMismatch(g, Open, games[g].state)
              /\ ~Changes(joinGame(sender, g))

\* a game that filled up with two players and refuses a third
C18_Witness ==
    \E g \in ExistingGames, a \in Address :
        /\ games[g].maxPlayers = 2 /\ Len(games[g].players) = 2
        /\ games[g].state = Ready
        /\ a \notin Range(games[g].players)
        /\ joinGameError(a, g) = GameStateMismatch(g, Open, Ready)

\* ---------------------------------------------------------------- C19
\* C19: joinGame on an Open game by an identity already among its players,
\* the host included, reverts with PlayerAlreadyJoined naming game and
\* caller, and no step that changes a variable is a step of such a call; the
\* players of a game change only by the append of an identity that was not
\* among them; and in every reachable state the players of every game begin
\* with the host and hold no identity twice.
C19_NoDoubleJoin ==
    /\ [](\A g \in ExistingGames :
            /\ NoDuplicates(games[g].players)
            /\ games[g].players[1] = games[g].host
            /\ \A a \in Range(games[g].players) :
                  games[g].state = Open => joinGameError(a, g) = PlayerAlreadyJoined(g, a))
    /\ [][\/ UNCHANGED vars
          \/ \A g \in ExistingGames :
                /\ \A a \in Range(games[g].players) :
                      games[g].state = Open => ~joinGame(a, g)
                /\ \/ games'[g].players = games[g].players
                   \/ \E a \in Address \ Range(games[g].players) :
                         games'[g].players = Append(games[g].players, a)]_vars

\* an Open game of four seats with two players, neither of whom may join again
C19_Witness ==
    \E g \in ExistingGames :
        /\ games[g].state = Open /\ games[g].maxPlayers = 4
        /\ Len(games[g].players) = 2
        /\ joinGameError(games[g].host, g) = PlayerAlreadyJoined(g, games[g].host)
        /\ joinGameError(games[g].players[2], g) = PlayerAlreadyJoined(g, games[g].players[2])
        /\ \E a \in Address : joinGameError(a, g) = NoError

\* ---------------------------------------------------------------- C20
\* C20: a game id was never created exactly when it is at or above
\* totalGames; for such an id joinGame, startGame, submitMove and getGame,
\* called by anyone, revert with GameNotFound naming the id, and such a call
\* changes nothing; for the id of a created game
\* none of the four reverts with GameNotFound, getGame returns the game, and
\* a call refused for the game's state reverts with GameStateMismatch instead.
C20_UnknownGameNotFound ==
    \A g \in GameIds, sender \in Address, ok \in BOOLEAN :
        /\ g >= totalGames <=> g \notin ExistingGames
        /\ g >= totalGames =>
              /\ joinGameError(sender, g) = GameNotFound(g)
              /\ startGameError(sender, g) = GameNotFound(g)
              /\ submitMoveError(sender, g, ok) = GameNotFound(g)
              /\ getGame(g) = [err |-> GameNotFound(g)]
              /\ ~Changes(joinGame(sender, g))
              /\ ~Changes(startGame(sender, g))
              /\ ~Changes(submitMove(sender, g, ok))
        /\ g < totalGames =>
              /\ joinGameError(sender, g).kind # "GameNotFound"
              /\ startGameError(sender, g).kind # "GameNotFound"
              /\ submitMoveError(sender, g, ok).kind # "GameNotFound"
              /\ getGame(g).err = NoError
              /\ getGame(g).host = games[g].host
              /\ getGame(g).currentPlayers = Len(games[g].players)
              /\ games[g].state # Open =>
                    joinGameError(sender, g).kind = "GameStateMismatch"

\* one game created and started: its id is refused for its state, the next
\* two ids are refused as not found
C20_Witness ==
    /\ totalGames = 1
    /\ games[0].state = Started
    /\ joinGameError(2, 0) = GameStateMismatch(0, Open, Started)
    /\ joinGameError(2, 1) = GameNotFound(1)
    /\ startGameError(games[0].host, 2) = GameNotFound(2)
    /\ submitMoveError(games[0].host, 1, TRUE) = GameNotFound(1)
    /\ getGame(1) = [err |-> GameNotFound(1)]
    /\ getGame(0).players = games[0].players

\* ---------------------------------------------------------------- C21
\* C21: for every game revealRequestId is non-zero exactly when the game is
\* Revealing or Revealed; it is written only in the step that takes the game
\* from Started to Revealing and keeps its value from then on.
C21_RevealRequestIdSetIff ==
    /\ [](\A g \in ExistingGames :
            games[g].revealRequestId # 0 <=> games[g].state \in {Revealing, Revealed})
    /\ [][\A g \in GameIds :
            games'[g].revealRequestId # games[g].revealRequestId =>
                games[g].state = Started /\ games'[g].state = Revealing]_vars

\* ---------------------------------------------------------------- C22
\* C22: a step that changes the state of a game takes it from Open to Ready
\* and is a joinGame of that game, or from Ready to Started and is the host's
\* startGame, or from Started to Revealing and is a submitMove of that game,
\* or from Revealing to Revealed and is the oracle's callback for the game's
\* request; so the state goes up one stage at a time and never back.  The
\* step that creates a game leaves it Open.
C22_LifecycleOrder ==
    [][\A g \in GameIds :
        /\ games'[g].state # games[g].state =>
              /\ g \in ExistingGames
              /\ games'[g].state = games[g].state + 1
              /\ \/ /\ games[g].state = Open /\ games'[g].state = Ready
                    /\ \E sender \in Address : joinGame(sender, g)
                 \/ /\ games[g].state = Ready /\ games'[g].state = Started
                    /\ startGame(games[g].host, g)
                 \/ /\ games[g].state = Started /\ games'[g].state = Revealing
                    /\ \E sender \in Address : submitMove(sender, g, TRUE)
                 \/ /\ games[g].state = Revealing /\ games'[g].state = Revealed
                    /\ handleDecryptionResult(decryptionOracle, games[g].revealRequestId,
                                              Payload(games'[g].revealedMoves, 0), TRUE)
        /\ (g \notin ExistingGames /\ g \in ExistingGames') =>
              /\ games'[g].state = Open
              /\ \E sender \in Address, maxPlayers \in MaxPlayersInputs :
                    createGame(sender, maxPlayers)]_vars

\* one game that went through every stage beside one that has just filled up
C22_Witness ==
    \E g, h \in ExistingGames :
        /\ games[g].state = Revealed
        /\ Len(events[g].revealRequested) = 1 /\ Len(events[g].gameRevealed) = 1
        /\ games[h].state = Ready

\* ---------------------------------------------------------------- C23
\* C23: in every Revealed game revealedMoves has one entry per player, and
\* for every index i the player players[i] has moveSubmitted and
\* moveRevealed set and revealedMove = revealedMoves[i], a value in {1,2,3}.
\* That value is the move in the low byte of the i-th slot of the accepted
\* payload: while a game is Revealing, every payload of players.length slots
\* whose low bytes are moves is accepted and resolves to exactly those low
\* bytes, in the ledger and in revealedMoves, and the step that reveals the
\* game stores what the callback resolved.
C23_RevealedMovesParallel ==
    /\ [](\A g \in ExistingGames :
            LET players == games[g].players
                n == Len(players)
            IN  /\ games[g].state = Revealed =>
                      /\ Len(games[g].revealedMoves) = n
                      /\ \A i \in 1..n :
                            /\ playerStates[g][players[i]].moveSubmitted
                            /\ playerStates[g][players[i]].moveRevealed
                            /\ playerStates[g][players[i]].revealedMove =
                                  games[g].revealedMoves[i]
                            /\ games[g].revealedMoves[i] \in {Rock, Paper, Scissors}
                /\ games[g].state = Revealing =>
                      \A c \in WellShaped(n) :
                          InvalidSlots(c) = {} =>
                              LET outcome == revealOutcome(players, playerStates[g], c)
                              IN  /\ handleDecryptionResultError(decryptionOracle,
                                         games[g].revealRequestId, c, TRUE) = NoError
                                  /\ outcome.revealedMoves =
                                         [i \in 1..n |-> Decoded(c.words[i])]
                                  /\ \A i \in 1..n :
                                        outcome.ledger[players[i]].revealedMove =
                                            Decoded(c.words[i]))
    /\ [][\A g \in ExistingGames :
            (games[g].state = Revealing /\ games'[g].state = Revealed) =>
                LET outcome == revealOutcome(games[g].players, playerStates[g],
                                             Payload(games'[g].revealedMoves, 0))
                IN  /\ games'[g].revealedMoves = outcome.revealedMoves
                    /\ playerStates'[g] = outcome.ledger
                    /\ games'[g].players = games[g].players]_vars

\* three players revealed with three different moves
C23_Witness ==
    \E g \in ExistingGames :
        /\ games[g].state = Revealed
        /\ games[g].revealedMoves = <<Rock, Scissors, Paper>>
        /\ \A i \in 1..3 :
              /\ playerStates[g][games[g].players[i]].moveRevealed
              /\ playerStates[g][games[g].players[i]].revealedMove = games[g].revealedMoves[i]

\* ---------------------------------------------------------------- C24
\* the fields of game g that hold the result of the reveal
RevealFields(gs, ps, g) ==
    [winners |-> gs[g].winners,
     revealedMoves |-> gs[g].revealedMoves,
     moveRevealed |-> [a \in Address |-> ps[g][a].moveRevealed],
     revealedMove |-> [a \in Address |-> ps[g][a].revealedMove]]

\* C24: while a game is Open, Ready, Started or Revealing its winners and
\* revealedMoves are empty and nobody has moveRevealed set or a revealedMove
\* for it; a step that changes any of these fields takes the game from
\* Revealing to Revealed and is the oracle's accepted callback for it.
C24_NoResultBeforeReveal ==
    /\ [](\A g \in GameIds :
            games[g].state \in {Open, Ready, Started, Revealing} =>
                /\ games[g].winners = <<>> /\ games[g].revealedMoves = <<>>
                /\ \A a \in Address :
                      ~playerStates[g][a].moveRevealed /\ playerStates[g][a].revealedMove = 0)
    /\ [][\/ UNCHANGED vars
          \/ \A g \in GameIds :
                RevealFields(games', playerStates', g) # RevealFields(games, playerStates, g)
                    => /\ games[g].state = Revealing /\ games'[g].state = Revealed
                       /\ handleDecryptionResult(decryptionOracle, games[g].revealRequestId,
                                                 Payload(games'[g].revealedMoves, 0), TRUE)]_vars

\* a Revealing game without any result beside a Revealed one with a winner
C24_Witness ==
    \E g, h \in ExistingGames :
        /\ games[g].state = Revealing
        /\ games[g].winners = <<>> /\ games[g].revealedMoves = <<>>
        /\ \A a \in Range(games[g].players) :
              playerStates[g][a].moveSubmitted /\ ~playerStates[g][a].moveRevealed
        /\ games[h].state = Revealed /\ Len(games[h].winners) = 1
        /\ \A a \in Range(games[h].players) : playerStates[h][a].moveRevealed

\* ---------------------------------------------------------------- C25
\* how often an event name occurs in the log of game g
Count(g, name) == Cardinality({ i \in 1..Len(events[g].log) : events[g].log[i] = name })

\* C25: no game exists at the start and totalGames is 0; a game exists
\* exactly for the ids below totalGames, each with one GameCreated event at
\* the head of its log, so totalGames is the number of accepted createGame
\* calls; a step that changes totalGames is an accepted createGame that raises
\* it by one and creates the game whose id is the old totalGames, the id its
\* GameCreated event carries; a rejected createGame changes nothing.
C25_SequentialIds ==
    /\ ExistingGames = {} /\ totalGames = 0
    /\ [](/\ ExistingGames = { g \in GameIds : g < totalGames }
          /\ \A g \in GameIds :
                IF g < totalGames
                THEN events[g].log[1] = "GameCreated" /\ Count(g, "GameCreated") = 1
                ELSE events[g].log = <<>> /\ games[g] = EmptyGame)
    /\ [][\/ UNCHANGED vars
          \/ /\ \A sender \in Address, maxPlayers \in MaxPlayersInputs :
                    createGameError(maxPlayers) # NoError => ~createGame(sender, maxPlayers)
             /\ (totalGames' # totalGames \/ ExistingGames' # ExistingGames) =>
                    /\ totalGames' = totalGames + 1
                    /\ ExistingGames' = ExistingGames \cup {totalGames}
                    /\ \E sender \in Address, maxPlayers \in MinPlayers..MaxPlayers :
                          /\ createGame(sender, maxPlayers)
                          /\ createGameEvents(sender, maxPlayers)[1] =
                                GameCreated(totalGames, sender, maxPlayers)]_vars

\* two games created one after the other, with ids 0 and 1
C25_Witness ==
    /\ totalGames = 2
    /\ ExistingGames = {0, 1}
    /\ events[0].log[1] = "GameCreated" /\ events[1].log[1] = "GameCreated"
    /\ games[0].host # games[1].host

\* ---------------------------------------------------------------- C26
\* the games whose record, player states or events differ after the step
ChangedGames ==
    { h \in GameIds : \/ games'[h] # games[h]
                      \/ playerStates'[h] # playerStates[h]
                      \/ events'[h] # events[h] }

\* C26: a step of joinGame, startGame or submitMove on game g changes the
\* record, the player states and the events of no game but g; a step of an
\* accepted callback changes those of one game only, the game that issued the
\* request id the callback carries; and no step changes two games.
C26_GamesIndependent ==
    [][\/ UNCHANGED vars
      \/ /\ Cardinality(ChangedGames) <= 1
         /\ \A g \in GameIds, sender \in Address :
               (joinGame(sender, g) \/ startGame(sender, g) \/ submitMove(sender, g, TRUE))
                   => ChangedGames = {g}
         /\ \A r \in RequestIds, h \in GameIds :
               handleDecryptionResult(decryptionOracle, r,
                                      Payload(games'[h].revealedMoves, 0), TRUE)
                   => \E g \in GameIds :
                         /\ r \in RequestsOf(g) /\ ChangedGames = {g}
                         /\ games[g].state = Revealing /\ games'[g].state = Revealed]_vars

\* two games sharing a player: one revealed, the other still waiting for that
\* player's move
C26_Witness ==
    \E g, h \in ExistingGames, a \in Address :
        /\ g # h
        /\ games[g].state = Revealed
        /\ games[h].state = Started /\ games[h].movesSubmitted = 1
        /\ playerStates[g][a].moveRevealed
        /\ playerStates[h][a].joined /\ ~playerStates[h][a].moveSubmitted

\* ---------------------------------------------------------------- C27
\* C27: while a game is Revealing, joinGame, startGame and submitMove on it
\* are refused for every caller, and a step that changes any field of the
\* game or of its player states is the oracle's accepted callback for its
\* request, takes it to Revealed and is not a step of any player operation;
\* so a Revealing game stays exactly as it is, in every step, until a callback
\* is accepted.
C27_RevealingOnlyCallback ==
    /\ [](\A g \in ExistingGames, sender \in Address, ok \in BOOLEAN :
            games[g].state = Revealing =>
                /\ joinGameError(sender, g) # NoError
                /\ startGameError(sender, g) # NoError
                /\ submitMoveError(sender, g, ok) # NoError)
    /\ [][\/ UNCHANGED vars
          \/ \A g \in ExistingGames :
                (/\ games[g].state = Revealing
                 /\ games'[g] # games[g] \/ playerStates'[g] # playerStates[g]) =>
                    /\ games'[g].state = Revealed
                    /\ handleDecryptionResult(decryptionOracle, games[g].revealRequestId,
                                              Payload(games'[g].revealedMoves, 0), TRUE)
                    /\ ~PlayerOperationStep]_vars

\* the first game still waits in Revealing while a game created after it has
\* been played to the end
C27_Witness ==
    /\ games[0].state = Revealing
    /\ games[1].state = Revealed
    /\ requestToGame[games[0].revealRequestId] = 1
    /\ \A a \in Address : submitMoveError(a, 0, TRUE) = GameStateMismatch(0, Started, Revealing)

\* ---------------------------------------------------------------- C28
Repeat(name, n) == [i \in 1..n |-> name]

\* the events of a whole game of n seats, in lifecycle order
Lifecycle(n) ==
    <<"GameCreated">> \o Repeat("PlayerJoined", n) \o <<"GameReady", "GameStarted">>
        \o Repeat("MoveSubmitted", n) \o <<"RevealRequested", "GameRevealed">>

\* how many of them a game has emitted by the time it is where it is
Emitted(g) ==
    LET n == games[g].maxPlayers
    IN  IF games[g].state = Open THEN 1 + Len(games[g].players)
        ELSE IF games[g].state = Ready THEN n + 2
        ELSE IF games[g].state = Started THEN n + 3 + games[g].movesSubmitted
        ELSE IF games[g].state = Revealing THEN 2 * n + 4
        ELSE 2 * n + 5

\* C28: the log of every game is the beginning of the lifecycle sequence
\* GameCreated, one PlayerJoined per player (the host's first), GameReady,
\* GameStarted, maxPlayers MoveSubmitted, RevealRequested, GameRevealed, as
\* far as the game has got: one PlayerJoined per player, one MoveSubmitted per
\* player who has submitted, GameReady, GameStarted, RevealRequested and
\* GameRevealed at most once each.  A step that changes the events is no
\* rejected call; it appends to the log of one game only, and what an
\* accepted createGame and joinGame append names the caller, GameReady coming
\* with the join that fills the game.
C28_EventsInLifecycleOrder ==
    /\ [](\A g \in GameIds :
            /\ g \notin ExistingGames => events[g].log = <<>>
            /\ g \in ExistingGames =>
                  /\ events[g].log = SubSeq(Lifecycle(games[g].maxPlayers), 1, Emitted(g))
                  /\ Count(g, "PlayerJoined") = Len(games[g].players)
                  /\ Count(g, "MoveSubmitted") = Cardinality(Submitted(playerStates[g]))
                  /\ Count(g, "GameReady") <= 1 /\ Count(g, "GameStarted") <= 1
                  /\ Count(g, "RevealRequested") = Len(events[g].revealRequested)
                  /\ Count(g, "GameRevealed") = Len(events[g].gameRevealed)
                  /\ Count(g, "RevealRequested") <= 1 /\ Count(g, "GameRevealed") <= 1)
    /\ [][\/ UNCHANGED events
          \/ /\ Cardinality({ g \in GameIds : events'[g] # events[g] }) = 1
             /\ \A g \in GameIds :
                   /\ Len(events'[g].log) >= Len(events[g].log)
                   /\ SubSeq(events'[g].log, 1, Len(events[g].log)) = events[g].log
             /\ \A sender \in Address, maxPlayers \in MaxPlayersInputs :
                   /\ createGameError(maxPlayers) # NoError => ~createGame(sender, maxPlayers)
                   /\ createGame(sender, maxPlayers) =>
                         createGameEvents(sender, maxPlayers) =
                             <<GameCreated(nextGameId, sender, maxPlayers),
                               PlayerJoined(nextGameId, sender)>>
             /\ \A sender \in Address, g \in GameIds, ok \in BOOLEAN :
                   /\ joinGameError(sender, g) # NoError => ~joinGame(sender, g)
                   /\ startGameError(sender, g) # NoError => ~startGame(sender, g)
                   /\ submitMoveError(sender, g, ok) # NoError => ~submitMove(sender, g, ok)
                   /\ joinGame(sender, g) =>
                         joinGameEvents(sender, g) =
                             IF games'[g].state = Ready
                             THEN <<PlayerJoined(g, sender), GameReady(g)>>
                             ELSE <<PlayerJoined(g, sender)>>]_vars

\* a game of three seats with its whole lifecycle in the log
C28_Witness ==
    \E g \in ExistingGames :
        /\ games[g].state = Revealed
        /\ events[g].log =
              <<"GameCreated", "PlayerJoined", "PlayerJoined", "PlayerJoined", "GameReady",
                "GameStarted", "MoveSubmitted", "MoveSubmitted", "MoveSubmitted",
                "RevealRequested", "GameRevealed">>

\* ---------------------------------------------------------------- C29
\* C29: the GameRevealed event of a game carries the winners the game stores
\* and a winning move of 0, 1, 2 or 3; the winning move is 0 exactly when the
\* winners are none; when it is not 0 there is at least one winner, at least
\* one player who is no winner, every winner is a player and every winner's
\* revealed move is the winning move.
C29_WinningMoveAndWinners ==
    \A g \in ExistingGames :
        /\ games[g].state = Revealed <=> Len(events[g].gameRevealed) = 1
        /\ games[g].state = Revealed =>
              LET winners == events[g].gameRevealed[1].winners
                  winningMove == events[g].gameRevealed[1].winningMove
              IN  /\ winners = games[g].winners
                  /\ winningMove \in {0, Rock, Paper, Scissors}
                  /\ winningMove = 0 <=> winners = <<>>
                  /\ winningMove # 0 =>
                        /\ Range(winners) # {}
                        /\ Range(winners) \subseteq Range(games[g].players)
                        /\ Range(winners) # Range(games[g].players)
                        /\ \A w \in Range(winners) :
                              playerStates[g][w].revealedMove = winningMove

\* one game revealed as a draw and one revealed with Paper beating Rock
C29_Witness ==
    \E g, h \in ExistingGames :
        /\ games[g].state = Revealed /\ games[h].state = Revealed
        /\ events[g].gameRevealed[1] = [winners |-> <<>>, winningMove |-> 0]
        /\ events[h].gameRevealed[1].winningMove = Paper
        /\ Len(events[h].gameRevealed[1].winners) = 1
        /\ games[h].revealedMoves = <<Paper, Rock>>

\* ---------------------------------------------------------------- C30
\* C30: whenever submitMove is inside an external call, the writes of the
\* operation are complete: the caller's moveSubmitted flag is set and the
\* move counted and, when the call is the decryption request, the game's
\* revealRequestId is written and the request indexed; so whatever the callee
\* does, every game counts one move per player who has submitted and makes at
\* most one reveal request.
C30_ChecksEffectsInteractions ==
    /\ call # Idle =>
          /\ playerStates[call.gameId][call.sender].moveSubmitted
          /\ games[call.gameId].movesSubmitted =
                Cardinality(Submitted(playerStates[call.gameId]))
          /\ call.at = "requestDecryption" =>
                \E r \in RequestIds :
                    /\ requestToGame[r] = call.gameId + 1
                    /\ r \in RequestsOf(call.gameId)
    /\ \A g \in ExistingGames :
          /\ call = Idle =>
                games[g].movesSubmitted = Cardinality(Submitted(playerStates[g]))
          /\ Len(events[g].revealRequested) <= 1

\* ---------------------------------------------------------------- C31
\* C31: in the fair runs (identities keep joining an Open game, the host
\* starts a Ready game, every player submits, the oracle answers every
\* outstanding request with a valid callback) every created game eventually
\* is Revealed.
C31_EveryGameRevealed ==
    \A g \in GameIds : (g < nextGameId) ~> (games[g].state = Revealed)

\* a game of three players and a game created after it have been played to the end
C31_Witness ==
    /\ nextGameId >= 1
    /\ games[0].state = Revealed
    /\ games[0].maxPlayers = 3
    /\ Len(events[0].gameRevealed) = 1

\* ---------------------------------------------------------------- C32
\* the players of the game whose moveSubmitted flag is set
FlaggedPlayers(gs, ps, g) == { a \in Range(gs[g].players) : ps[g][a].moveSubmitted }

\* C32: for every game movesSubmitted is the number of its players whose
\* moveSubmitted flag is set and at most players.length; it is 0 before
\* Started and maxPlayers in Revealing and Revealed; and a step changes it
\* only by adding one, in a successful submitMove for that game.
C32_MovesSubmittedCounts ==
    /\ [](\A g \in GameIds :
            /\ games[g].movesSubmitted = Cardinality(FlaggedPlayers(games, playerStates, g))
            /\ games[g].movesSubmitted <= Len(games[g].players)
            /\ games[g].state \in {Open, Ready} => games[g].movesSubmitted = 0
            /\ games[g].state \in {Revealing, Revealed} =>
                  games[g].movesSubmitted = games[g].maxPlayers)
    /\ [][\A g \in GameIds :
             games'[g].movesSubmitted # games[g].movesSubmitted =>
                 /\ games'[g].movesSubmitted = games[g].movesSubmitted + 1
                 /\ games[g].state = Started
                 /\ \E sender \in Range(games[g].players) :
                       /\ submitMoveError(sender, g, TRUE) = NoError
                       /\ submitMove(sender, g, TRUE)]_vars

\* two of the three players of a started game have submitted
C32_Witness ==
    \E g \in ExistingGames :
        /\ games[g].state = Started
        /\ games[g].maxPlayers = 3
        /\ games[g].movesSubmitted = 2
        /\ Cardinality(FlaggedPlayers(games, playerStates, g)) = 2

\* ---------------------------------------------------------------- C33
\* the request-to-game index holds an entry for request r pointing to game g
HasEntry(index, r, g) == index[r] = g + 1

\* C33: the index holds an entry for request r pointing to game g exactly
\* when g is Revealing with revealRequestId = r; an entry appears only in the
\* submitMove step that takes the game from Started to Revealing and
\* disappears only in the step that takes it to Revealed; and no game has
\* more than one callback accepted.
C33_IndexIffRevealing ==
    /\ [](\A r \in RequestIds, g \in GameIds :
            HasEntry(requestToGame, r, g) <=>
                (g \in ExistingGames /\ games[g].state = Revealing
                   /\ games[g].revealRequestId = r))
    /\ [](\A g \in GameIds : Len(events[g].gameRevealed) <= 1)
    /\ [][\A r \in RequestIds, g \in GameIds :
             /\ (~HasEntry(requestToGame, r, g) /\ HasEntry(requestToGame', r, g)) =>
                   /\ games[g].state = Started /\ games'[g].state = Revealing
                   /\ \E sender \in Address : submitMove(sender, g, TRUE)
             /\ (HasEntry(requestToGame, r, g) /\ ~HasEntry(requestToGame', r, g)) =>
                   /\ games[g].state = Revealing /\ games'[g].state = Revealed
                   /\ Len(events'[g].gameRevealed) = Len(events[g].gameRevealed) + 1
             /\ (games[g].state = Revealing /\ games'[g].state = Revealed) =>
                   requestToGame'[games[g].revealRequestId] = 0]_vars

\* one game has been revealed and its entry is gone while another game waits
\* for its callback with its entry in place
C33_Witness ==
    \E g, h \in ExistingGames :
        /\ games[g].state = Revealed
        /\ requestToGame[games[g].revealRequestId] = 0
        /\ games[h].state = Revealing
        /\ HasEntry(requestToGame, games[h].revealRequestId, h)

\* ---------------------------------------------------------------- C34
\* the game a request was made for
GameOf(r) == CHOOSE g \in GameIds : r \in RequestsOf(g)

\* C34: as long as a request is outstanding its index entry is in place and
\* every valid callback of the oracle for it is accepted; a step taken while
\* it is outstanding (a rejected callback among them: wrong sender, bad
\* proof, wrong length, a slot that holds no move) leaves the entry, the game
\* and its players' records as they are, unless it is a valid callback of
\* the oracle for the request, which takes the game to Revealed.
C34_RejectedCallbackKeepsRequest ==
    /\ [](\A r \in RequestIds :
            Outstanding(r) =>
                /\ HasEntry(requestToGame, r, GameOf(r))
                /\ \A c \in ValidPayloads(Len(games[GameOf(r)].players)) :
                      handleDecryptionResultError(decryptionOracle, r, c, TRUE) = NoError)
    /\ [][\/ UNCHANGED vars
          \/ \A r \in RequestIds :
                Outstanding(r) =>
                    \/ /\ requestToGame'[r] = requestToGame[r]
                       /\ games'[GameOf(r)] = games[GameOf(r)]
                       /\ playerStates'[GameOf(r)] = playerStates[GameOf(r)]
                       /\ events'[GameOf(r)] = events[GameOf(r)]
                    \/ /\ games'[GameOf(r)].state = Revealed
                       /\ ~Outstanding(r)'
                       /\ \E c \in ValidPayloads(Len(games[GameOf(r)].players)) :
                             handleDecryptionResult(decryptionOracle, r, c, TRUE)]_vars

\* a request is outstanding; a callback from another sender, one with a bad
\* proof, one of a wrong length and one with a slot that holds no move are
\* rejected, and a valid one is accepted
C34_Witness ==
    \E r \in RequestIds :
        LET n == Len(games[GameOf(r)].players)
            valid == Payload([i \in 1..n |-> Scissors], 0)
        IN  /\ Outstanding(r)
            /\ handleDecryptionResultError(decryptionOracle + 1, r, valid, TRUE).kind
                  = "Unauthorized"
            /\ handleDecryptionResultError(decryptionOracle, r, valid, FALSE).kind
                  = "InvalidKMSSignatures"
            /\ handleDecryptionResultError(decryptionOracle, r,
                                           Payload([i \in 1..n |-> Scissors], 31), TRUE).kind
                  = "UnexpectedResultLength"
            /\ handleDecryptionResultError(decryptionOracle, r,
                                           Payload([i \in 1..n |-> 4], 0), TRUE).kind
                  = "InvalidMoveValue"
            /\ handleDecryptionResultError(decryptionOracle, r, valid, TRUE) = NoError

\* ---------------------------------------------------------------- C35
\* the handle that stands for no ciphertext
UnsetHandle == EmptyPlayerState.encryptedMove

\* C35: every decryption request made for a game carries one handle per
\* player, in join order, the i-th being the handle players[i] stored with
\* their own submitMove, and none is unset: every player has moveSubmitted
\* set from the request on.
C35_RequestCarriesAllHandles ==
    \A g \in GameIds :
        \A k \in 1..Len(events[g].revealRequested) :
            LET handles == events[g].revealRequested[k].handles
                players == games[g].players
            IN  /\ Len(handles) = Len(players)
                /\ Len(handles) = games[g].maxPlayers
                /\ \A i \in 1..Len(players) :
                      /\ handles[i] = playerStates[g][players[i]].encryptedMove
                      /\ handles[i] = fromExternal(players[i])
                      /\ handles[i] # UnsetHandle
                      /\ playerStates[g][players[i]].moveSubmitted

\* a request has been made for a game of three players; its first handle
\* is the one the host stored
C35_Witness ==
    \E g \in ExistingGames :
        /\ games[g].state = Revealing
        /\ Len(events[g].revealRequested) = 1
        /\ Len(events[g].revealRequested[1].handles) = 3
        /\ events[g].revealRequested[1].handles[1] = games[g].host

\* ---------------------------------------------------------------- C36
\* the record of a player who has submitted and whose move is not revealed
SubmittedRecord(player) ==
    [joined |-> TRUE, moveSubmitted |-> TRUE, moveRevealed |-> FALSE,
     encryptedMove |-> fromExternal(player), revealedMove |-> 0]

\* the records of a game once all of its players have submitted
SubmittedLedger(players) ==
    [a \in Address |-> IF a \in Range(players) THEN SubmittedRecord(a)
                                                ELSE EmptyPlayerState]

\* C36: what a game holds once all moves are in, and what it holds after the
\* callback, is determined by its join order and by the moves, whatever the
\* order of the submitMove calls was: in Revealing the players' records, the
\* game record and the handles of the request are those of the join order,
\* and in Revealed the revealed moves, each player's revealed move and the
\* winners are the callback's resolution of the join order with the moves.
C36_SubmitOrderIrrelevant ==
    \A g \in ExistingGames :
        LET players == games[g].players
        IN  /\ games[g].state = Revealing =>
                  /\ playerStates[g] = SubmittedLedger(players)
                  /\ Len(events[g].revealRequested) = 1
                  /\ events[g].revealRequested[1].handles =
                        [i \in 1..Len(players) |-> fromExternal(players[i])]
                  /\ games[g] =
                        [host |-> players[1], maxPlayers |-> Len(players),
                         state |-> Revealing, movesSubmitted |-> Len(players),
                         revealRequestId |-> events[g].revealRequested[1].requestId,
                         players |-> players, winners |-> <<>>, revealedMoves |-> <<>>]
            /\ games[g].state = Revealed =>
                  LET outcome == revealOutcome(players, SubmittedLedger(players),
                                               Payload(games[g].revealedMoves, 0))
                  IN  /\ outcome.err = NoError
                      /\ playerStates[g] = outcome.ledger
                      /\ games[g] =
                            [host |-> players[1], maxPlayers |-> Len(players),
                             state |-> Revealed, movesSubmitted |-> Len(players),
                             revealRequestId |-> events[g].revealRequested[1].requestId,
                             players |-> players, winners |-> outcome.winners,
                             revealedMoves |-> outcome.revealedMoves]

\* two games of the same players in the same join order: in one the host has
\* submitted and the other player has not, in the other it is the reverse
C36_Witness ==
    \E g, h \in ExistingGames :
        /\ games[g].players = games[h].players
        /\ games[g].state = Started /\ games[h].state = Started
        /\ playerStates[g][games[g].players[1]].moveSubmitted
        /\ ~playerStates[g][games[g].players[2]].moveSubmitted
        /\ ~playerStates[h][games[h].players[1]].moveSubmitted
        /\ playerStates[h][games[h].players[2]].moveSubmitted

\* ---------------------------------------------------------------- C37
\* C37: for every game the host is players[0] and an identity's joined flag
\* is set exactly when it occurs in players; once the game is created a step
\* changes neither host nor maxPlayers; players changes only while the game
\* is Open, by a successful joinGame appending the caller.
C37_HostAndPlayersStable ==
    /\ [](\A g \in ExistingGames :
            /\ games[g].host = games[g].players[1]
            /\ games[g].maxPlayers \in MinPlayers..MaxPlayers
            /\ \A a \in Address :
                  playerStates[g][a].joined <=> a \in Range(games[g].players))
    /\ [](\A g \in GameIds \ ExistingGames :
            /\ games[g].players = <<>>
            /\ \A a \in Address : ~playerStates[g][a].joined)
    /\ [][\A g \in ExistingGames :
             /\ games'[g].host = games[g].host
             /\ games'[g].maxPlayers = games[g].maxPlayers
             /\ games'[g].players # games[g].players =>
                   /\ games[g].state = Open
                   /\ \E sender \in Address :
                         /\ joinGameError(sender, g) = NoError
                         /\ games'[g].players = Append(games[g].players, sender)
                         /\ joinGame(sender, g)]_vars

\* a game has left Open with three players, the host and two who joined
\* after it, the last of them the oracle's identity
C37_Witness ==
    \E g \in ExistingGames :
        /\ games[g].state = Started
        /\ Len(games[g].players) = 3
        /\ games[g].players[1] = games[g].host
        /\ games[g].players[3] = decryptionOracle
        /\ playerStates[g][games[g].players[2]].joined

\* ---------------------------------------------------------------- C38
\* C38: for every game and identity, a moveSubmitted flag that is set stays
\* set; the stored handle is unset as long as the flag is not set; and a step
\* changes the handle only when it sets the flag, in the identity's own
\* successful submitMove, which stores the handle of the caller's input;
\* afterwards no step, the callback included, changes it.
C38_MoveSubmittedOnce ==
    /\ [](\A g \in GameIds, a \in Address :
            ~playerStates[g][a].moveSubmitted =>
                playerStates[g][a].encryptedMove = UnsetHandle)
    /\ [][\/ UNCHANGED playerStates
          \/ \A g \in GameIds, a \in Address :
             LET before == playerStates[g][a]
                 after == playerStates'[g][a]
             IN  /\ before.moveSubmitted => after.moveSubmitted
                 /\ before.moveSubmitted => after.encryptedMove = before.encryptedMove
                 /\ (after.encryptedMove # before.encryptedMove
                       \/ after.moveSubmitted # before.moveSubmitted) =>
                       /\ ~before.moveSubmitted /\ after.moveSubmitted
                       /\ after.encryptedMove = fromExternal(a)
                       /\ submitMoveError(a, g, TRUE) = NoError
                       /\ submitMove(a, g, TRUE)]_vars

\* a game has been revealed and the handles its players stored are in place
C38_Witness ==
    \E g \in ExistingGames :
        /\ games[g].state = Revealed
        /\ Len(games[g].players) = 3
        /\ \A a \in Range(games[g].players) :
              /\ playerStates[g][a].moveSubmitted
              /\ playerStates[g][a].moveRevealed
              /\ playerStates[g][a].encryptedMove = fromExternal(a)

\* ---------------------------------------------------------------- C39
\* C39: a request that is outstanding, request id 0 and game 0 included, has
\* a non-zero index entry that names its game, and every valid callback of
\* the oracle for it is accepted; a callback for an id that is not
\* outstanding (never issued, or consumed) is rejected as an invalid reveal
\* request, whatever game 0 is doing; and the game a callback reveals is the
\* one the request was made for.
C39_RoutingOfZero ==
    /\ [](\A r \in RequestIds :
            IF Outstanding(r)
            THEN /\ requestToGame[r] # 0
                 /\ requestToGame[r] - 1 = GameOf(r)
                 /\ \A c \in ValidPayloads(Len(games[GameOf(r)].players)) :
                       handleDecryptionResultError(decryptionOracle, r, c, TRUE) = NoError
            ELSE /\ requestToGame[r] = 0
                 /\ \A n \in MinPlayers..MaxPlayers : \A c \in ValidPayloads(n) :
                       handleDecryptionResultError(decryptionOracle, r, c, TRUE)
                           = InvalidRevealRequest(r))
    /\ [][\A g \in GameIds :
             (games[g].state # Revealed /\ games'[g].state = Revealed) =>
                 /\ Outstanding(games[g].revealRequestId)
                 /\ GameOf(games[g].revealRequestId) = g
                 /\ requestToGame[games[g].revealRequestId] = g + 1]_vars

\* game 0 waits for the callback of request 0 and request 1 was never issued
C39_Witness ==
    /\ games[0].state = Revealing
    /\ games[0].revealRequestId = 0
    /\ Outstanding(0)
    /\ requestToGame[0] = 1
    /\ ~Outstanding(1)
    /\ counterRequest = 1

\* ---------------------------------------------------------------- C40
\* what getGame returns for a game that was created
StoredFields(g) ==
    [err |-> NoError,
     host |-> games[g].host,
     maxPlayers |-> games[g].maxPlayers,
     currentPlayers |-> Len(games[g].players),
     movesSubmitted |-> games[g].movesSubmitted,
     state |-> games[g].state,
     players |-> games[g].players,
     winners |-> games[g].winners,
     revealedMoves |-> games[g].revealedMoves,
     revealRequestId |-> games[g].revealRequestId]

\* what getPlayerState returns for an identity that never joined
NeverJoined ==
    [joined |-> FALSE, moveSubmitted |-> FALSE, moveRevealed |-> FALSE,
     revealedMove |-> 0, encryptedMove |-> 0]

\* getPlayerState returns the stored record, which is the empty one for an
\* identity that never joined the game, and totalGames the id counter
PlayerStateAndTotal ==
    /\ \A g \in GameIds, a \in Address :
          /\ getPlayerState(g, a) = playerStates[g][a]
          /\ a \notin Range(games[g].players) => getPlayerState(g, a) = NeverJoined
    /\ totalGames = nextGameId
    /\ totalGames = Cardinality(ExistingGames)

\* C40 as stated: no query fails; getGame returns the stored fields with
\* currentPlayers = players.length for every game id, the ids of games that
\* were never created included.
C40_Original ==
    /\ \A g \in GameIds : getGame(g) = StoredFields(g)
    /\ PlayerStateAndTotal

\* C40 amended: getGame returns the stored fields with currentPlayers =
\* players.length for a game that was created and fails with GameNotFound for
\* an id that was never created; getPlayerState returns the stored flags, all
\* false / 0 for an identity that never joined, and totalGames the id
\* counter, for every game id and identity.
C40_QueriesReadOnly ==
    /\ \A g \in GameIds :
          IF g < nextGameId
          THEN getGame(g) = StoredFields(g)
          ELSE getGame(g) = [err |-> GameNotFound(g)]
    /\ PlayerStateAndTotal

\* game 0 is Open with two of its three seats taken and game 1 was never
\* created
C40_Witness ==
    /\ nextGameId = 1
    /\ getGame(0).err = NoError
    /\ getGame(0).currentPlayers = 2
    /\ getGame(0).maxPlayers = 3
    /\ getGame(1).err = GameNotFound(1)
    /\ \E a \in Address : getPlayerState(0, a).joined /\ ~getPlayerState(1, a).joined
    /\ \E a \in Address : getPlayerState(0, a) = NeverJoined

====
